---------------------------- MODULE Spec2Model ----------------------------
(***************************************************************************)
(* Model of the learning card of the Turkish verb trainer                  *)
(* (frontend/src/components/LearningCard.tsx) and of the score keeping of  *)
(* its parent (frontend/src/App.tsx).                                      *)
(*                                                                         *)
(* A JavaScript string is a sequence of one-character strings.  null and   *)
(* the empty string are both the empty sequence: the code tests affixes    *)
(* only for truthiness, which does not tell them apart.                    *)
(***************************************************************************)
EXTENDS Integers, Sequences, FiniteSets, Bags, TLC

(***************************************************************************)
(* Bounds of the model.                                                    *)
(***************************************************************************)
\* number of characters typed around a core text in one input event
MaxPad == 1
\* cap on the number of scored completions in one behaviour
MaxAttempts == 1

\* completions scored in the specification of the score counters
MaxCompletions == 2
\* cap on the calls of loadCurrentExample not yet settled
MaxLoads == 2
\* a button is pressed while fewer calls of loadCurrentExample than this are
\* pending, where the user waits for the example
MaxWaiting == 1
\* cap on the number of animation frames requested and not yet fired
MaxFrames == 2

(***************************************************************************)
(* Strings.                                                                *)
(***************************************************************************)
Null == << >>

Min(a, b) == IF a <= b THEN a ELSE b
Max(a, b) == IF a >= b THEN a ELSE b

\* String.prototype.toLowerCase on one character (the letters of the model)
LowerChar(c) ==
    CASE c = "B" -> "b"
      [] c = "G" -> "g"
      [] c = "C" -> "c"
      [] c = "I" -> "i"
      [] c = "O" -> "o"
      [] c = "Y" -> "y"
      [] c = "P" -> "p"
      [] c = "N" -> "n"
      [] c = "H" -> "h"
      [] OTHER -> c

toLowerCase(s) == [i \in 1..Len(s) |-> LowerChar(s[i])]

\* the characters the regular expression class \s and trim() treat as space
IsSpace(c) == c \in {" ", "\t"}

RECURSIVE trimStart(_)
trimStart(s) ==
    IF s # << >> /\ IsSpace(Head(s)) THEN trimStart(Tail(s)) ELSE s

RECURSIVE trimEnd(_)
trimEnd(s) ==
    IF s # << >> /\ IsSpace(s[Len(s)])
    THEN trimEnd(SubSeq(s, 1, Len(s) - 1))
    ELSE s

\* String.prototype.trim
trim(s) == trimEnd(trimStart(s))

\* s.replace(/\.+$/, '')
RECURSIVE stripDots(_)
stripDots(s) ==
    IF s # << >> /\ s[Len(s)] = "."
    THEN stripDots(SubSeq(s, 1, Len(s) - 1))
    ELSE s

\* String.prototype.substring(a, b), 0-based, with its clamping and swapping
substring(s, a, b) ==
    LET ca == Min(Max(a, 0), Len(s))
        cb == Min(Max(b, 0), Len(s))
    IN  SubSeq(s, Min(ca, cb) + 1, Max(ca, cb))

\* String.prototype.substring(a)
substringFrom(s, a) == substring(s, a, Len(s))

\* String.prototype.startsWith
startsWith(s, p) == Len(p) <= Len(s) /\ SubSeq(s, 1, Len(p)) = p

\* String.prototype.indexOf, 0-based, -1 when sub does not occur
indexOf(s, sub) ==
    LET hits == {i \in 0..(Len(s) - Len(sub)) :
                    SubSeq(s, i + 1, i + Len(sub)) = sub}
    IN  IF hits = {} THEN -1
        ELSE CHOOSE i \in hits : \A j \in hits : i <= j

\* String.prototype.includes
includes(s, sub) ==
    \E i \in 0..(Len(s) - Len(sub)) : SubSeq(s, i + 1, i + Len(sub)) = sub


(***************************************************************************)
(* Training examples (TrainingExample of types/index.ts).  E1 is the card  *)
(* of the requirements document; the others vary polarity, absent affixes  *)
(* and a surface form that is not the plain concatenation of its parts.    *)
(***************************************************************************)
Str_gel == <<"g", "e", "l">>
Str_di == <<"d", "i">>
Str_m == <<"m">>
Str_me == <<"m", "e">>
Str_r == <<"r">>
Str_acak == <<"a", "c", "a", "k">>

E1 ==
    [verb_english |-> "to come",
     turkish_verb |->
        [verb_full |-> <<"g", "e", "l", "d", "i", "m">>, root |-> Str_gel, tense_affix |-> Str_di,
         verb_tense |-> "gecmis_zaman", personal_pronoun |-> "ben",
         personal_affix |-> Str_m, polarity |-> "positive",
         negative_affix |-> Null],
     english_example_sentence |-> <<"I", " ", "c", "a", "m", "e", ".">>,
     russian_example_sentence |-> <<"Y", "a", " ", "p", "r", "i", "s", "h", "e", "l", ".">>,
     turkish_example_sentence |-> <<"B", "e", "n", " ", "p", "a", "r", "k", "a", " ", "g", "e", "l", "d", "i", "m", ".">>]

E2 ==
    [verb_english |-> "to come",
     turkish_verb |->
        [verb_full |-> <<"g", "e", "l", "m", "e", "d", "i", "m">>, root |-> Str_gel, tense_affix |-> Str_di,
         verb_tense |-> "gecmis_zaman", personal_pronoun |-> "ben",
         personal_affix |-> Str_m, polarity |-> "negative",
         negative_affix |-> Str_me],
     english_example_sentence |-> <<"N", "o", "t", " ", "m", "e", ".">>,
     russian_example_sentence |-> <<"N", "e", " ", "y", "a", ".">>,
     turkish_example_sentence |-> <<"B", "e", "n", " ", "g", "e", "l", "m", "e", "d", "i", "m", ".">>]

\* imperative: neither a tense affix nor a personal affix
E3 ==
    [verb_english |-> "to come",
     turkish_verb |->
        [verb_full |-> Str_gel, root |-> Str_gel, tense_affix |-> Null,
         verb_tense |-> "emir_kipi", personal_pronoun |-> "sen",
         personal_affix |-> Null, polarity |-> "positive",
         negative_affix |-> Null],
     english_example_sentence |-> <<"C", "o", "m", "e", ".">>,
     russian_example_sentence |-> <<"P", "r", "i", "d", "i", ".">>,
     turkish_example_sentence |-> <<"G", "e", "l", ".">>]

\* a buffer vowel that no affix records: gel + (i) + r, no personal affix
E4 ==
    [verb_english |-> "to come",
     turkish_verb |->
        [verb_full |-> <<"g", "e", "l", "i", "r">>, root |-> Str_gel, tense_affix |-> Str_r,
         verb_tense |-> "genis_zaman", personal_pronoun |-> "o",
         personal_affix |-> Null, polarity |-> "positive",
         negative_affix |-> Null],
     english_example_sentence |-> <<"H", "e", " ", "c", "o", "m", "e", "s", ".">>,
     russian_example_sentence |-> <<"O", "n", " ", "i", "d", "e", "t", ".">>,
     turkish_example_sentence |-> <<"O", " ", "g", "e", "l", "i", "r", ".">>]

\* the recorded tense affix (acak) is the other vowel-harmony variant of the
\* one in the surface form (gelecek), no personal affix
E5 ==
    [verb_english |-> "to come",
     turkish_verb |->
        [verb_full |-> <<"g", "e", "l", "e", "c", "e", "k">>, root |-> Str_gel, tense_affix |-> Str_acak,
         verb_tense |-> "gelecek_zaman", personal_pronoun |-> "o",
         personal_affix |-> Null, polarity |-> "positive",
         negative_affix |-> Null],
     english_example_sentence |-> <<"H", "e", " ", "w", "i", "l", "l", ".">>,
     russian_example_sentence |-> <<"O", "n", " ", "b", "u", "d", "e", "t", ".">>,
     turkish_example_sentence |-> <<"O", " ", "g", "e", "l", "e", "c", "e", "k", ".">>]

\* a sentence of three words: oku + yor + um
E6 ==
    [verb_english |-> "to read",
     turkish_verb |->
        [verb_full |-> <<"o", "k", "u", "y", "o", "r", "u", "m">>, root |-> <<"o", "k", "u">>, tense_affix |-> <<"y", "o", "r">>,
         verb_tense |-> "simdiki_zaman", personal_pronoun |-> "ben",
         personal_affix |-> <<"u", "m">>, polarity |-> "positive",
         negative_affix |-> Null],
     english_example_sentence |-> <<"I", " ", "r", "e", "a", "d", ".">>,
     russian_example_sentence |-> <<"Y", "a", " ", "c", "h", "i", "t", "a", "y", "u", ".">>,
     turkish_example_sentence |-> <<"B", "e", "n", " ", "k", "i", "t", "a", "b", "i", " ", "o", "k", "u", "y", "o", "r", "u", "m", ".">>]

\* a root that drops its final vowel before the tense affix:
\* bekl(e) + iyor + um
E7 ==
    [verb_english |-> "to wait",
     turkish_verb |->
        [verb_full |-> <<"b", "e", "k", "l", "i", "y", "o", "r", "u", "m">>, root |-> <<"b", "e", "k", "l", "e">>, tense_affix |-> <<"i", "y", "o", "r">>,
         verb_tense |-> "simdiki_zaman", personal_pronoun |-> "ben",
         personal_affix |-> <<"u", "m">>, polarity |-> "positive",
         negative_affix |-> Null],
     english_example_sentence |-> <<"I", " ", "w", "a", "i", "t", ".">>,
     russian_example_sentence |-> <<"Y", "a", " ", "z", "h", "d", "u", ".">>,
     turkish_example_sentence |-> <<"B", "e", "n", " ", "b", "e", "k", "l", "i", "y", "o", "r", "u", "m", ".">>]

\* the surface form of the verb also begins an earlier word of the sentence
E8 ==
    [verb_english |-> "to come",
     turkish_verb |->
        [verb_full |-> Str_gel, root |-> Str_gel, tense_affix |-> Null,
         verb_tense |-> "emir_kipi", personal_pronoun |-> "sen",
         personal_affix |-> Null, polarity |-> "positive",
         negative_affix |-> Null],
     english_example_sentence |-> <<"C", "o", "m", "e", ".">>,
     russian_example_sentence |-> <<"P", "r", "i", "d", "i", ".">>,
     turkish_example_sentence |-> <<"G", "e", "l", "i", "n", " ", "g", "e", "l", ".">>]

\* the same root kept whole before the negative affix:
\* bekle + m + iyor + um
E9 ==
    [verb_english |-> "to wait",
     turkish_verb |->
        [verb_full |-> <<"b", "e", "k", "l", "e", "m", "i", "y", "o", "r", "u", "m">>, root |-> <<"b", "e", "k", "l", "e">>, tense_affix |-> <<"i", "y", "o", "r">>,
         verb_tense |-> "simdiki_zaman", personal_pronoun |-> "ben",
         personal_affix |-> <<"u", "m">>, polarity |-> "negative",
         negative_affix |-> <<"m">>],
     english_example_sentence |-> <<"I", " ", "d", "o", " ", "n", "o", "t", " ", "w", "a", "i", "t", ".">>,
     russian_example_sentence |-> <<"Y", "a", " ", "n", "e", " ", "z", "h", "d", "u", ".">>,
     turkish_example_sentence |-> <<"B", "e", "n", " ", "b", "e", "k", "l", "e", "m", "i", "y", "o", "r", "u", "m", ".">>]

\* a sentence with an apostrophe: gel + di + m
E10 ==
    [verb_english |-> "to come",
     turkish_verb |->
        [verb_full |-> <<"g", "e", "l", "d", "i", "m">>, root |-> Str_gel, tense_affix |-> Str_di,
         verb_tense |-> "gecmis_zaman", personal_pronoun |-> "ben",
         personal_affix |-> Str_m, polarity |-> "positive",
         negative_affix |-> Null],
     english_example_sentence |-> <<"I", " ", "c", "a", "m", "e", ".">>,
     russian_example_sentence |-> <<"Y", "a", " ", "p", "r", "i", "s", "h", "e", "l", ".">>,
     turkish_example_sentence |-> <<"C", "a", "n", "'", "a", " ", "g", "e", "l", "d", "i", "m", ".">>]

\* the state holds the name of the card's example, exampleData its content
exampleData ==
    [id \in {"E1", "E2", "E3", "E4", "E5", "E6", "E7", "E8", "E9", "E10"} |->
        CASE id = "E1" -> E1 [] id = "E2" -> E2 [] id = "E3" -> E3
          [] id = "E4" -> E4 [] id = "E5" -> E5 [] id = "E6" -> E6
          [] id = "E7" -> E7 [] id = "E8" -> E8 [] id = "E9" -> E9
          [] OTHER -> E10]

Examples == {"E1", "E2", "E3"}

Directions ==
    {"english-to-turkish", "russian-to-turkish",
     "turkish-to-english", "turkish-to-russian"}

\* direction.endsWith('turkish')
endsWithTurkish(d) == d \in {"english-to-turkish", "russian-to-turkish"}

\* direction.includes('english'), else russian
sourceLanguageOf(d) ==
    IF d \in {"english-to-turkish", "turkish-to-english"}
    THEN "english" ELSE "russian"


(***************************************************************************)
(* State.                                                                  *)
(***************************************************************************)
VARIABLES
    example,        \* LearningCard prop: the card's TrainingExample (name)
    direction,      \* LearningCard prop / App state: LearnDirection
    userInput,      \* LearningCard state: text of the editable field
    progress,       \* LearningCard state: ProgressState
    appProgress,    \* App state: the parent's copy of ProgressState
    userProgress,   \* App state: UserProgress (score counters)
    cursorPos,      \* caret offset in the editable field
    rendered,       \* styled spans last computed by renderColoredText
    lastEvent,      \* history: the event that led to this state
    frames,         \* animation frames requested and not yet fired
    currentTense,   \* LearningCard prop / App state: the tense navigated to
    tenseLevel,     \* LearningCard state: level label of the tense, or null
    fetches,        \* requests of the tense-level mapping still in flight
    emitted,        \* history: the onProgress call made by the last event
    phase,          \* history: progress of a checkbox round trip
    currentVerb,    \* App state: verb_english of the verb navigated to
    currentPronoun, \* App state: the pronoun navigated to, or null
    currentPolarity, \* App state: the polarity navigated to
    currentRank,    \* App state: rank of the verb of the last loaded example
    languageLevel,  \* App state: the language-level filter
    currentExample, \* App state: the displayed example, or null
    loads,          \* calls of loadCurrentExample not yet settled
    trainingExampleCache \* DataLoader: keys of the examples fetched

vars ==
    <<example, direction, userInput, progress, appProgress, userProgress,
      cursorPos, rendered, frames, currentTense, tenseLevel, fetches,
      lastEvent, emitted, phase, currentVerb, currentPronoun,
      currentPolarity, currentRank, languageLevel, currentExample, loads,
      trainingExampleCache>>

\* the state of the level label
levelVars == <<currentTense, tenseLevel, fetches>>

\* the navigation state of App besides currentTense, and the DataLoader
navVars ==
    <<currentVerb, currentPronoun, currentPolarity, currentRank,
      languageLevel, currentExample, loads, trainingExampleCache>>

noProgress ==
    [verbRoot |-> FALSE, negativeAffix |-> FALSE, tenseAffix |-> FALSE,
     personalAffix |-> FALSE, fullSentence |-> FALSE]

initialUserProgress ==
    [correctAnswers |-> 0, totalAttempts |-> 0, currentStreak |-> 0,
     bestStreak |-> 0, completedExamples |-> {}]

noCall == [called |-> FALSE, manual |-> FALSE]

\* currentExample when no example is on display
noExample ==
    [verb_english |-> "null", verb_rank |-> 0, verb_tense |-> "null",
     personal_pronoun |-> "null", polarity |-> "null"]

\* the TrainingExample shown by the card
card == exampleData[example]

(***************************************************************************)
(* LearningCard helpers.                                                   *)
(***************************************************************************)
getTargetSentence(ex, d) ==
    CASE d = "english-to-turkish" -> ex.turkish_example_sentence
      [] d = "russian-to-turkish" -> ex.turkish_example_sentence
      [] d = "turkish-to-english" -> ex.english_example_sentence
      [] d = "turkish-to-russian" -> ex.russian_example_sentence
      [] OTHER -> ex.turkish_example_sentence

\* variant: the personal affix comes before the tense affix
buildTextFromProgress_PersonalFirst(ex, d, progressState) ==
    IF progressState.fullSentence
    THEN getTargetSentence(ex, d)
    ELSE IF endsWithTurkish(d)
    THEN (IF progressState.verbRoot THEN ex.turkish_verb.root ELSE << >>)
         \o (IF progressState.negativeAffix
             THEN ex.turkish_verb.negative_affix ELSE << >>)
         \o (IF progressState.personalAffix
             THEN ex.turkish_verb.personal_affix ELSE << >>)
         \o (IF progressState.tenseAffix
             THEN ex.turkish_verb.tense_affix ELSE << >>)
    ELSE << >>

buildTextFromProgress(ex, d, progressState) ==
    IF endsWithTurkish(d)
    THEN IF progressState.fullSentence
         THEN getTargetSentence(ex, d)
         ELSE (IF progressState.verbRoot
                  THEN ex.turkish_verb.root ELSE << >>)
              \o (IF progressState.negativeAffix
                     /\ ex.turkish_verb.negative_affix # Null
                  THEN ex.turkish_verb.negative_affix ELSE << >>)
              \o (IF progressState.tenseAffix
                     /\ ex.turkish_verb.tense_affix # Null
                  THEN ex.turkish_verb.tense_affix ELSE << >>)
              \o (IF progressState.personalAffix
                     /\ ex.turkish_verb.personal_affix # Null
                  THEN ex.turkish_verb.personal_affix ELSE << >>)
    ELSE IF progressState.fullSentence
         THEN getTargetSentence(ex, d)
         ELSE << >>

\* variant: surrounding whitespace is kept
normalizeInput_NoTrim(input) == toLowerCase(stripDots(input))

\* input.trim().replace(/\.+$/, '') followed by toLowerCase()
normalizeInput(input) == toLowerCase(stripDots(trim(input)))

\* getTargetSentence().toLowerCase().replace(/\.+$/, '')
normalizeTarget(ex, d) == stripDots(toLowerCase(getTargetSentence(ex, d)))

\* variant: a flag is set but never cleared
updateFlag_OnlySets(old, has) == old \/ has

\* if (progress.flag !== has) { newProgress.flag = has; hasChanges = true }
updateFlag(old, has) == IF old # has THEN has ELSE old

\* variant: every match counts as a completion
wasFullSentenceCompleted_AnyMatch(p, isFullSentenceMatch) ==
    isFullSentenceMatch

\* const wasFullSentenceCompleted = !progress.fullSentence && isFullSentenceMatch
wasFullSentenceCompleted(p, isFullSentenceMatch) ==
    ~p.fullSentence /\ isFullSentenceMatch

checkProgressRealTime(input, ex, d, p) ==
    LET inputLower == normalizeInput(input)
        tv == ex.turkish_verb
        turkish == endsWithTurkish(d)
        hasVerbRoot == includes(inputLower, toLowerCase(tv.root))
        checksNegative ==
            turkish /\ tv.polarity = "negative" /\ tv.negative_affix # Null
        hasNegativeAffix ==
            includes(inputLower, toLowerCase(tv.negative_affix))
        checksTense == turkish /\ tv.tense_affix # Null
        hasTenseAffix == includes(inputLower, toLowerCase(tv.tense_affix))
        checksPersonal == turkish /\ tv.personal_affix # Null
        hasPersonalAffix ==
            includes(inputLower, toLowerCase(tv.personal_affix))
        isFullSentenceMatch == inputLower = normalizeTarget(ex, d)
        newProgress ==
            [verbRoot |->
                IF turkish THEN updateFlag(p.verbRoot, hasVerbRoot)
                ELSE p.verbRoot,
             negativeAffix |->
                IF checksNegative
                THEN updateFlag(p.negativeAffix, hasNegativeAffix)
                ELSE p.negativeAffix,
             tenseAffix |->
                IF checksTense THEN updateFlag(p.tenseAffix, hasTenseAffix)
                ELSE p.tenseAffix,
             personalAffix |->
                IF checksPersonal
                THEN updateFlag(p.personalAffix, hasPersonalAffix)
                ELSE p.personalAffix,
             fullSentence |-> updateFlag(p.fullSentence, isFullSentenceMatch)]
    IN  [newProgress |-> newProgress,
         hasChanges |->
            \/ turkish /\ p.verbRoot # hasVerbRoot
            \/ checksNegative /\ p.negativeAffix # hasNegativeAffix
            \/ checksTense /\ p.tenseAffix # hasTenseAffix
            \/ checksPersonal /\ p.personalAffix # hasPersonalAffix
            \/ p.fullSentence # isFullSentenceMatch,
         wasManual |-> wasFullSentenceCompleted(p, isFullSentenceMatch)]

\* variant: the effect never rewrites the field
revealEffect_KeepsText(ex, d, p, text) == text

\* useEffect(..., [progress.fullSentence, example]): runs when one of its
\* dependencies changed; text is the value of userInput set by the event
revealEffect(ex, d, p, text) ==
    IF p.fullSentence THEN buildTextFromProgress(ex, d, p) ELSE text

\* variant: the field is cleared whatever the progress
directionEffect_AlwaysClears(ex, d, p) == << >>

\* useEffect(..., [direction])
directionEffect(ex, d, p) ==
    IF p.fullSentence THEN buildTextFromProgress(ex, d, p) ELSE << >>

\* the Negative Affix checkbox is rendered only under this condition
showsNegativeCheckbox(ex) ==
    ex.turkish_verb.polarity = "negative"
    /\ ex.turkish_verb.negative_affix # Null

\* variant: the Tense Affix flag is left as it was
revealChecked_KeepsTense(ex, p) ==
    [verbRoot |-> TRUE,
     negativeAffix |->
        IF ex.turkish_verb.polarity = "negative" THEN TRUE
        ELSE p.negativeAffix,
     tenseAffix |-> p.tenseAffix,
     personalAffix |-> TRUE,
     fullSentence |-> TRUE]

\* Reveal Answer onToggle, branch isChecking
revealChecked(ex, p) ==
    [verbRoot |-> TRUE,
     negativeAffix |->
        IF ex.turkish_verb.polarity = "negative" THEN TRUE
        ELSE p.negativeAffix,
     tenseAffix |-> TRUE,
     personalAffix |-> TRUE,
     fullSentence |-> TRUE]

\* variant: the Negative Affix flag is left as it was
revealUnchecked_KeepsNegative ==
    [verbRoot |-> FALSE, negativeAffix |-> progress.negativeAffix,
     tenseAffix |-> FALSE, personalAffix |-> FALSE, fullSentence |-> FALSE]

\* Reveal Answer onToggle, branch unchecking
revealUnchecked ==
    [verbRoot |-> FALSE, negativeAffix |-> FALSE, tenseAffix |-> FALSE,
     personalAffix |-> FALSE, fullSentence |-> FALSE]

\* variant: the field keeps its text
revealUncheckedInput_Kept == userInput

\* Reveal Answer onToggle, branch unchecking: setUserInput('')
revealUncheckedInput == << >>

(***************************************************************************)
(* App helpers.                                                            *)
(***************************************************************************)
\* `${verb_english}-${personal_pronoun}-${verb_tense}-${polarity}`
exampleKey(ex) ==
    <<ex.verb_english, ex.turkish_verb.personal_pronoun,
      ex.turkish_verb.verb_tense, ex.turkish_verb.polarity>>

\* the condition under which handleProgress updates the score
scores(newProgress, wasManualInput) ==
    newProgress.fullSentence /\ ~appProgress.fullSentence /\ wasManualInput

\* variant: every completion counts as a correct answer
scoreUpdate_CountsEvery(prev, key) ==
    [correctAnswers |-> prev.correctAnswers + 1,
     totalAttempts |-> prev.totalAttempts + 1,
     currentStreak |-> prev.currentStreak + 1,
     bestStreak |-> Max(prev.bestStreak, prev.currentStreak + 1),
     completedExamples |-> prev.completedExamples \cup {key}]

\* the updater passed to setUserProgress
scoreUpdate(prev, key) ==
    [correctAnswers |->
        IF key \notin prev.completedExamples
        THEN prev.correctAnswers + 1 ELSE prev.correctAnswers,
     totalAttempts |-> prev.totalAttempts + 1,
     currentStreak |-> prev.currentStreak + 1,
     bestStreak |-> Max(prev.bestStreak, prev.currentStreak + 1),
     completedExamples |-> prev.completedExamples \cup {key}]

handleProgress(newProgress, wasManualInput) ==
    /\ appProgress' = newProgress
    /\ userProgress' =
          IF scores(newProgress, wasManualInput)
          THEN scoreUpdate(userProgress, exampleKey(card))
          ELSE userProgress


(***************************************************************************)
(* Texts the user can leave in the field with one input event: a core text *)
(* (a prefix or a part of some card's answer) with a few characters typed  *)
(* before and after it.                                                    *)
(***************************************************************************)
Seqs(S, n) == UNION {[1..k -> S] : k \in 0..n}

LeadChars == {" ", "x"}
TrailChars == {" ", ".", "!"}

\* what is typed before and after a core text: at most MaxPad characters
Pads ==
    {pad \in Seqs(LeadChars, MaxPad) \X Seqs(TrailChars, MaxPad) :
        Len(pad[1]) + Len(pad[2]) <= MaxPad}

\* the Turkish sentence up to the end of the verb root
rootPrefix(ex) ==
    LET s == ex.turkish_example_sentence
        i == indexOf(toLowerCase(s), toLowerCase(ex.turkish_verb.root))
    IN  IF i = -1 THEN ex.turkish_verb.root
        ELSE substring(s, 0, i + Len(ex.turkish_verb.root))

\* core texts typed as they are
PlainCores(ex, d) ==
    {<< >>,
     ex.turkish_verb.root,
     rootPrefix(ex),
     ex.turkish_verb.personal_affix,
     ex.turkish_verb.verb_full,
     stripDots(getTargetSentence(ex, d)) \o <<"!", "!">>}

\* core texts typed with something before or after them
PaddedCores(ex, d) ==
    {toLowerCase(stripDots(getTargetSentence(ex, d)))}

TypedTexts(ex, d) ==
    PlainCores(ex, d)
    \cup {pad[1] \o core \o pad[2] :
            pad \in Pads, core \in PaddedCores(ex, d)}

(***************************************************************************)
(* Bookkeeping of a checkbox round trip: every box toggled on starting     *)
(* from the empty card, then every box toggled off.                        *)
(***************************************************************************)
displayedBoxes(ex) ==
    {"verbRoot", "tenseAffix", "personalAffix", "fullSentence"}
    \cup (IF showsNegativeCheckbox(ex) THEN {"negativeAffix"} ELSE {})

isStart == progress = noProgress /\ userInput = << >>

allDisplayedChecked == \A b \in displayedBoxes(card) : progress[b]

noneDisplayedChecked == \A b \in displayedBoxes(card) : ~progress[b]

phaseAfterToggle(box) ==
    IF ~progress[box]
    THEN IF isStart \/ phase = "on" THEN "on" ELSE "none"
    ELSE IF (phase = "on" /\ allDisplayedChecked) \/ phase = "off"
         THEN "off" ELSE "none"

(***************************************************************************)
(* Initial state: the card is mounted on some example, App is fresh.       *)
(***************************************************************************)
InitOn(examples) ==
    /\ example \in examples
    /\ direction = "english-to-turkish"
    /\ userInput = << >>
    /\ progress = noProgress
    /\ appProgress = noProgress
    /\ userProgress = initialUserProgress
    /\ cursorPos = 0
    /\ rendered = << >>
    /\ frames = << >>
    /\ currentTense = exampleData[example].turkish_verb.verb_tense
    /\ tenseLevel = "null"
    /\ fetches = {currentTense}
    /\ lastEvent = [kind |-> "mount", text |-> << >>]
    /\ emitted = noCall
    /\ phase = "none"
    /\ currentVerb = "be"
    /\ currentPronoun = "ben"
    /\ currentPolarity = "positive"
    /\ currentRank = 1
    /\ languageLevel = "All"
    /\ currentExample = noExample
    /\ loads = SetToBag({[verb |-> currentVerb, pronoun |-> currentPronoun,
                          tense |-> currentTense,
                          polarity |-> currentPolarity, cached |-> FALSE]})
    /\ trainingExampleCache = {}

(***************************************************************************)
(* Events of the card.                                                     *)
(***************************************************************************)
\* onInput of the editable field, as far as the card goes: setUserInput,
\* checkProgressRealTime, the call of the onProgress prop (recorded in
\* emitted) and the effect on [progress.fullSentence, example]
onInput(t) ==
    LET r == checkProgressRealTime(t, card, direction, progress)
        np == r.newProgress
    IN  /\ progress' = IF r.hasChanges THEN np ELSE progress
        /\ userInput' =
              IF r.hasChanges /\ np.fullSentence # progress.fullSentence
              THEN revealEffect(card, direction, np, t)
              ELSE t
        /\ emitted' =
              IF r.hasChanges
              THEN [called |-> TRUE, manual |-> r.wasManual]
              ELSE noCall
        /\ lastEvent' = [kind |-> "input", text |-> t]
        /\ phase' = "none"
        /\ UNCHANGED <<example, direction, rendered>>

\* the input event in the card alone: whatever is passed as onProgress is
\* outside the component
CardInput(t) ==
    /\ onInput(t)
    /\ UNCHANGED <<appProgress, userProgress, cursorPos, frames, levelVars, navVars>>

\* the input event in the application: onProgress is App's handleProgress
Input(t) ==
    LET r == checkProgressRealTime(t, card, direction, progress)
    IN  /\ (r.hasChanges /\ scores(r.newProgress, r.wasManual))
              => userProgress.totalAttempts < MaxAttempts
        /\ onInput(t)
        /\ UNCHANGED <<cursorPos, frames, levelVars, navVars>>
        /\ IF r.hasChanges
           THEN handleProgress(r.newProgress, r.wasManual)
           ELSE UNCHANGED <<appProgress, userProgress>>

\* onToggle of the Verb Root, Negative Affix, Tense Affix and Personal
\* Affix checkboxes, which differ only in the flag they flip
toggleSubPart(field) ==
    LET newProgress == [progress EXCEPT ![field] = ~progress[field]]
    IN  /\ progress' = newProgress
        /\ userInput' =
              IF endsWithTurkish(direction)
              THEN buildTextFromProgress(card, direction, newProgress)
              ELSE userInput
        /\ lastEvent' = [kind |-> field, text |-> << >>]
        /\ emitted' = noCall
        /\ phase' = phaseAfterToggle(field)
        /\ UNCHANGED <<example, direction, appProgress, userProgress,
                       cursorPos, rendered, frames, levelVars, navVars>>

ToggleVerbRoot == toggleSubPart("verbRoot")

ToggleNegativeAffix ==
    /\ showsNegativeCheckbox(card)
    /\ toggleSubPart("negativeAffix")

ToggleTenseAffix == toggleSubPart("tenseAffix")

TogglePersonalAffix == toggleSubPart("personalAffix")

\* onToggle of the Reveal Answer checkbox
ToggleRevealAnswer ==
    /\ IF ~progress.fullSentence
       THEN LET newProgress == revealChecked(card, progress)
            IN  /\ progress' = newProgress
                /\ userInput' =
                      revealEffect(card, direction, newProgress,
                          buildTextFromProgress(card, direction,
                                                newProgress))
                /\ lastEvent' = [kind |-> "revealOn", text |-> << >>]
       ELSE /\ progress' = revealUnchecked
            /\ userInput' = revealUncheckedInput
            /\ lastEvent' = [kind |-> "revealOff", text |-> << >>]
    /\ emitted' = noCall
    /\ phase' = phaseAfterToggle("fullSentence")
    /\ UNCHANGED <<example, direction, appProgress, userProgress,
                   cursorPos, rendered, frames, levelVars, navVars>>

\* variant: a direction change also clears the progress
setDirection_ClearsProgress(newDirection) ==
    /\ newDirection # direction
    /\ direction' = newDirection
    /\ progress' = noProgress
    /\ userInput' = << >>
    /\ lastEvent' = [kind |-> "direction", text |-> << >>]
    /\ emitted' = noCall
    /\ phase' = "none"
    /\ UNCHANGED <<example, appProgress, userProgress, cursorPos, rendered, frames, levelVars, navVars>>

\* the direction prop changes to newDirection; effect on [direction]
setDirection(newDirection) ==
    /\ newDirection # direction
    /\ direction' = newDirection
    /\ userInput' = directionEffect(card, newDirection, progress)
    /\ lastEvent' = [kind |-> "direction", text |-> << >>]
    /\ emitted' = noCall
    /\ phase' = "none"
    /\ UNCHANGED <<example, progress, appProgress, userProgress,
                   cursorPos, rendered, frames, levelVars, navVars>>

\* DirectionControls: the source language selector
handleSourceLanguageChange(newSource) ==
    setDirection(
        IF endsWithTurkish(direction)
        THEN (IF newSource = "english" THEN "english-to-turkish"
              ELSE "russian-to-turkish")
        ELSE (IF newSource = "english" THEN "turkish-to-english"
              ELSE "turkish-to-russian"))

\* DirectionControls: the direction toggle button
handleDirectionToggle ==
    setDirection(
        IF endsWithTurkish(direction)
        THEN (IF sourceLanguageOf(direction) = "english"
              THEN "turkish-to-english" ELSE "turkish-to-russian")
        ELSE (IF sourceLanguageOf(direction) = "english"
              THEN "english-to-turkish" ELSE "russian-to-turkish"))

\* App shows another example in the same card (setCurrentExample); the card
\* keeps userInput and progress, and its effect on
\* [progress.fullSentence, example] runs
ChangeExample(ex) ==
    /\ ex # example
    /\ example' = ex
    /\ userInput' = revealEffect(exampleData[ex], direction, progress, userInput)
    /\ lastEvent' = [kind |-> "example", text |-> << >>]
    /\ emitted' = noCall
    /\ phase' = "none"
    /\ UNCHANGED <<direction, progress, appProgress, userProgress,
                   cursorPos, rendered, frames, levelVars, navVars>>

Toggles ==
    \/ ToggleVerbRoot
    \/ ToggleNegativeAffix
    \/ ToggleTenseAffix
    \/ TogglePersonalAffix
    \/ ToggleRevealAnswer

(***************************************************************************)
(* SpecCard: the LearningCard component with every text of TypedTexts.     *)
(***************************************************************************)
InitCard == InitOn(Examples)

NextCard ==
    \/ \E t \in TypedTexts(card, direction) : CardInput(t)
    \/ Toggles
    \/ \E newSource \in {"english", "russian"} :
          handleSourceLanguageChange(newSource)
    \/ handleDirectionToggle
    \/ \E ex \in Examples : ChangeExample(ex)

SpecCard == InitCard /\ [][NextCard]_vars

(***************************************************************************)
(* Spec: the card inside App, whose handleProgress keeps the score; the    *)
(* texts typed are the ones that matter to the score.                      *)
(***************************************************************************)
ScoreTexts(ex, d) ==
    {<< >>, toLowerCase(stripDots(getTargetSentence(ex, d)))}

ScoreExamples == {"E1", "E2"}

Init == InitOn(ScoreExamples)

Next ==
    \/ \E t \in ScoreTexts(card, direction) : Input(t)
    \/ Toggles
    \/ handleDirectionToggle
    \/ \E ex \in ScoreExamples : ChangeExample(ex)

Spec == Init /\ [][Next]_vars


(***************************************************************************)
(* Rendering of the field (renderColoredText).  The HTML it returns is a   *)
(* sequence of pieces, each a style and the escaped text it wraps; the     *)
(* text the browser shows for it is the pieces' text with the entities     *)
(* decoded.                                                                *)
(***************************************************************************)
piece(style, text) == [style |-> style, text |-> text]

\* text.replace(/c/g, entity) for a one-character pattern c
replaceAll(text, c, entity) ==
    LET RECURSIVE rep(_)
        rep(t) ==
            IF t = << >> THEN << >>
            ELSE (IF Head(t) = c THEN entity ELSE <<Head(t)>>)
                 \o rep(Tail(t))
    IN  rep(text)

Entities ==
    <<[char |-> "&", entity |-> <<"&", "a", "m", "p", ";">>],
      [char |-> "<", entity |-> <<"&", "l", "t", ";">>],
      [char |-> ">", entity |-> <<"&", "g", "t", ";">>],
      [char |-> "\"", entity |-> <<"&", "q", "u", "o", "t", ";">>],
      [char |-> "'", entity |-> <<"&", "#", "0", "3", "9", ";">>]>>

escapeHtml(text) ==
    LET RECURSIVE chain(_, _)
        chain(t, i) ==
            IF i > Len(Entities) THEN t
            ELSE chain(replaceAll(t, Entities[i].char, Entities[i].entity),
                       i + 1)
    IN  chain(text, 1)

\* the text content of a piece of HTML source once the browser has parsed it
\* (innerHTML written, textContent read): character references are decoded
RECURSIVE decodeHtml(_)
decodeHtml(t) ==
    IF t = << >> THEN << >>
    ELSE LET hits == {i \in 1..Len(Entities) :
                        startsWith(t, Entities[i].entity)}
         IN  IF hits = {}
             THEN <<Head(t)>> \o decodeHtml(Tail(t))
             ELSE LET i == CHOOSE j \in hits : TRUE
                  IN  <<Entities[i].char>>
                      \o decodeHtml(
                            substringFrom(t, Len(Entities[i].entity)))

RECURSIVE textContent(_)
textContent(html) ==
    IF html = << >> THEN << >>
    ELSE decodeHtml(Head(html).text) \o textContent(Tail(html))

\* text.split(/(\s+)/): words and the whitespace runs between them
RECURSIVE splitWords(_)
splitWords(text) ==
    LET wordEnd ==
            IF \E i \in 1..Len(text) : IsSpace(text[i])
            THEN (CHOOSE i \in 1..Len(text) :
                    IsSpace(text[i])
                    /\ \A j \in 1..(i - 1) : ~IsSpace(text[j])) - 1
            ELSE Len(text)
        word == SubSeq(text, 1, wordEnd)
        rest == SubSeq(text, wordEnd + 1, Len(text))
        spaces == SubSeq(rest, 1, Len(rest) - Len(trimStart(rest)))
    IN  IF rest = << >> THEN <<word>>
        ELSE <<word, spaces>> \o splitWords(trimStart(rest))

\* /^\s+$/.test(word)
isSpaceRun(word) ==
    word # << >> /\ \A i \in 1..Len(word) : IsSpace(word[i])

\* the index (0-based) of the word holding the caret, -1 when there is none
\* or no caret position was passed (hasCursor false)
cursorWordIndex(words, hasCursor, cursorPosition) ==
    LET charCount(i) ==
            LET RECURSIVE sum(_)
                sum(k) == IF k < 0 THEN 0 ELSE sum(k - 1) + Len(words[k + 1])
            IN  sum(i)
        hits == {i \in 0..(Len(words) - 1) : cursorPosition <= charCount(i)}
    IN  IF ~hasCursor \/ hits = {} THEN -1
        ELSE CHOOSE i \in hits : \A j \in hits : i <= j

\* the decision of markIncorrectWords for the word words[i + 1]
isIncorrect(words, i, cursorIndex, targetWords) ==
    LET word == words[i + 1]
        isLastWord == i = Len(words) - 1
        isCursorWord == i = cursorIndex
        wordWithoutDots == stripDots(word)
        wordLower == toLowerCase(wordWithoutDots)
        existsInTarget ==
            \E k \in 1..Len(targetWords) :
                toLowerCase(targetWords[k]) = wordLower
        isValidPrefix ==
            \E k \in 1..Len(targetWords) :
                startsWith(toLowerCase(targetWords[k]), wordLower)
    IN  IF isSpaceRun(word) THEN FALSE
        ELSE IF wordWithoutDots = << >> THEN FALSE
        ELSE IF isLastWord \/ isCursorWord THEN ~isValidPrefix
        ELSE ~existsInTarget

\* targetSentence.split(/(\s+)/).filter(w => !/^\s+$/.test(w))
targetWordsOf(target) ==
    SelectSeq(splitWords(target), LAMBDA w : ~isSpaceRun(w))

\* variant: words are checked also when the answer is revealed
markIncorrectWords_NoGuard(text, hasCursor, cursorPosition, target, fullSentence) ==
    LET words == splitWords(text)
        targetWords == targetWordsOf(target)
        cursorIndex == cursorWordIndex(words, hasCursor, cursorPosition)
    IN  [i \in 1..Len(words) |->
            piece(IF isIncorrect(words, i - 1, cursorIndex, targetWords)
                  THEN "incorrect" ELSE "plain",
                  escapeHtml(words[i]))]

markIncorrectWords(text, hasCursor, cursorPosition, target, fullSentence) ==
    IF fullSentence THEN <<piece("plain", escapeHtml(text))>>
    ELSE LET words == splitWords(text)
             targetWords == targetWordsOf(target)
             cursorIndex == cursorWordIndex(words, hasCursor, cursorPosition)
         IN  [i \in 1..Len(words) |->
                piece(IF isIncorrect(words, i - 1, cursorIndex, targetWords)
                      THEN "incorrect" ELSE "plain",
                      escapeHtml(words[i]))]

renderTextWithErrors(input, beforeVerb, verbHtml, afterVerb, verbStartPos, cursor, target, fullSentence) ==
    LET verbLength == Len(input) - Len(beforeVerb) - Len(afterVerb)
        verbEndPos == verbStartPos + verbLength
        inBefore == cursor <= verbStartPos
        inAfter == ~inBefore /\ cursor > verbEndPos
    IN  markIncorrectWords(beforeVerb, inBefore, cursor, target,
                           fullSentence)
        \o verbHtml
        \o markIncorrectWords(afterVerb, inAfter, cursor - verbEndPos,
                              target, fullSentence)

turkishVowels == {"a", "e", "i", "o", "u"}

\* the root span of the primary path ends after this many characters
rootLength(tv) ==
    LET root == tv.root
        rootEndsWithVowel ==
            LowerChar(root[Len(root)]) \in turkishVowels
        tenseStartsWithVowel ==
            tv.tense_affix # << >>
            /\ LowerChar(tv.tense_affix[1]) \in turkishVowels
    IN  IF rootEndsWithVowel /\ tenseStartsWithVowel
        THEN Len(root) - 1 ELSE Len(root)

\* the colour of the characters between the search offset and a found affix:
\* that of the affix found
gapStyle_OfPreviousSegment(previousStyle, affixStyle) == previousStyle

gapStyle(previousStyle, affixStyle) == affixStyle

\* primary path: the pieces of the verb found at verbIndex
coloredVerb(tv, actualVerbText) ==
    LET rootOffset == IF tv.root # << >> THEN rootLength(tv) ELSE 0
        rootHtml ==
            IF tv.root # << >>
            THEN <<piece("root", escapeHtml(substring(actualVerbText, 0,
                                                      rootOffset)))>>
            ELSE << >>
        \* a searched affix: the gap before it and the affix itself
        searched(style, previousStyle, affix, offset) ==
            LET remainingVerb == substringFrom(actualVerbText, offset)
                index == indexOf(toLowerCase(remainingVerb),
                                 toLowerCase(affix))
            IN  IF affix = << >> \/ index = -1
                THEN [html |-> << >>, offset |-> offset]
                ELSE [html |->
                        (IF index > 0
                         THEN <<piece(gapStyle(previousStyle, style),
                                      escapeHtml(substring(remainingVerb,
                                                           0, index)))>>
                         ELSE << >>)
                        \o <<piece(style, escapeHtml(
                                substring(remainingVerb, index,
                                          index + Len(affix))))>>,
                      offset |-> offset + index + Len(affix)]
        negative == searched("negative", "root", tv.negative_affix,
                             rootOffset)
        tense == searched("tense",
                          IF negative.html # << >> THEN "negative"
                          ELSE "root",
                          tv.tense_affix, negative.offset)
        personalHtml ==
            IF tv.personal_affix # << >>
            THEN <<piece("personal", escapeHtml(
                        substringFrom(actualVerbText, tense.offset)))>>
            ELSE << >>
    IN  rootHtml \o negative.html \o tense.html \o personalHtml

\* fallback path: the parts looked for one after the other
verbPartsOf(tv) ==
    SelectSeq(<<[text |-> tv.root, style |-> "root"],
                [text |-> tv.negative_affix, style |-> "negative"],
                [text |-> tv.tense_affix, style |-> "tense"],
                [text |-> tv.personal_affix, style |-> "personal"]>>,
              LAMBDA part : part.text # << >>)

\* a matching that goes on to the next part after a part that does not match
RECURSIVE matchParts_SkipsMismatch(_, _, _)
matchParts_SkipsMismatch(input, parts, currentIndex) ==
    IF parts = << >>
    THEN [html |-> << >>, verbEndIndex |-> currentIndex]
    ELSE LET part == Head(parts)
             remainingInput == toLowerCase(substringFrom(input, currentIndex))
         IN  IF startsWith(remainingInput, toLowerCase(part.text))
             THEN LET rest == matchParts_SkipsMismatch(input, Tail(parts),
                                         currentIndex + Len(part.text))
                  IN  [html |->
                          <<piece(part.style, escapeHtml(
                                substring(input, currentIndex,
                                          currentIndex + Len(part.text))))>>
                          \o rest.html,
                       verbEndIndex |-> rest.verbEndIndex]
             ELSE matchParts_SkipsMismatch(input, Tail(parts), currentIndex)

\* fallback path: the pieces matched from rootIndex on and where they end
RECURSIVE matchParts(_, _, _)
matchParts(input, parts, currentIndex) ==
    IF parts = << >>
    THEN [html |-> << >>, verbEndIndex |-> currentIndex]
    ELSE LET part == Head(parts)
             remainingInput == toLowerCase(substringFrom(input, currentIndex))
         IN  IF startsWith(remainingInput, toLowerCase(part.text))
             THEN LET rest == matchParts(input, Tail(parts),
                                         currentIndex + Len(part.text))
                  IN  [html |->
                          <<piece(part.style, escapeHtml(
                                substring(input, currentIndex,
                                          currentIndex + Len(part.text))))>>
                          \o rest.html,
                       verbEndIndex |-> rest.verbEndIndex]
             ELSE [html |-> << >>, verbEndIndex |-> currentIndex]

renderColoredText(ex, d, input, p, cursor) ==
    IF ~endsWithTurkish(d)
    THEN (IF input = << >> THEN << >> ELSE <<piece("plain", input)>>)
    ELSE IF input = << >> THEN << >>
    ELSE
    LET tv == ex.turkish_verb
        target == stripDots(getTargetSentence(ex, d))
        verbFull == tv.verb_full
        inputLower == toLowerCase(input)
        verbIndex == indexOf(inputLower, toLowerCase(verbFull))
        verbParts == verbPartsOf(tv)
        rootIndex ==
            IF verbParts = << >> THEN -1
            ELSE indexOf(inputLower, toLowerCase(verbParts[1].text))
    IN  IF verbIndex # -1
        THEN renderTextWithErrors(input,
                substring(input, 0, verbIndex),
                coloredVerb(tv, substring(input, verbIndex,
                                          verbIndex + Len(verbFull))),
                substringFrom(input, verbIndex + Len(verbFull)),
                verbIndex, cursor, target, p.fullSentence)
        ELSE IF rootIndex # -1
        THEN LET matched == matchParts(input, verbParts, rootIndex)
             IN  renderTextWithErrors(input,
                    substring(input, 0, rootIndex),
                    matched.html,
                    substringFrom(input, matched.verbEndIndex),
                    rootIndex, cursor, target, p.fullSentence)
        ELSE markIncorrectWords(input, FALSE, 0, target, p.fullSentence)

(***************************************************************************)
(* SpecRender: the field of one card as it is typed into and repainted.    *)
(***************************************************************************)
RenderExamples == {"E1", "E2", "E3", "E4", "E5"}

RenderTexts(ex, d) ==
    {<< >>,
     ex.turkish_verb.root,
     ex.turkish_verb.verb_full,
     <<"x", " ">> \o ex.turkish_verb.verb_full,
     <<"&">> \o ex.turkish_verb.root,
     toLowerCase(stripDots(getTargetSentence(ex, d)))}

\* an input event that leaves text t in the field and the caret at its end
RenderInput(t) ==
    /\ onInput(t)
    /\ cursorPos' = Len(t)
    /\ UNCHANGED <<appProgress, userProgress, frames, levelVars, navVars>>

\* the selection moves inside the field
MoveCaret(c) ==
    /\ c # cursorPos
    /\ cursorPos' = c
    /\ lastEvent' = [kind |-> "caret", text |-> << >>]
    /\ UNCHANGED <<example, direction, userInput, progress, appProgress,
                   userProgress, rendered, frames, levelVars, navVars, emitted,
                   phase>>

\* the text of a text node as the innerHTML getter serialises it: only the
\* ampersand and the angle brackets are written as character references
serializeText(text) ==
    replaceAll(replaceAll(replaceAll(text, Entities[1].char,
                                     Entities[1].entity),
                          Entities[2].char, Entities[2].entity),
               Entities[3].char, Entities[3].entity)

\* editableRef.current.innerHTML read back after html was written to it:
\* the written source parsed, then serialised
innerHTML(html) ==
    [i \in 1..Len(html) |->
        piece(html[i].style, serializeText(decodeHtml(html[i].text)))]

\* the text nodes of the field after its innerHTML is written: one per piece
\* that has characters, holding the decoded text
textNodes(html) ==
    LET decoded == [i \in 1..Len(html) |-> decodeHtml(html[i].text)]
    IN  SelectSeq(decoded, LAMBDA text : text # << >>)

\* the string written to innerHTML is not the empty string
isTruthyHtml(html) ==
    \E i \in 1..Len(html) : html[i].style # "plain" \/ html[i].text # << >>

\* the plain-text offset of a caret placed in a text node: the length of the
\* text from the start of the field to the caret
getCursorPosition(nodes, position) ==
    Len(textContent([i \in 1..(position.node - 1) |->
                        piece("plain", nodes[i])])) + position.offset

RECURSIVE traverseNodes_Strict(_, _, _, _)
traverseNodes_Strict(nodes, i, charCount, cursorOffset) ==
    IF i > Len(nodes)
    THEN [found |-> FALSE, node |-> 0, offset |-> 0]
    ELSE IF charCount + Len(nodes[i]) > cursorOffset
         THEN [found |-> TRUE, node |-> i, offset |-> cursorOffset - charCount]
         ELSE traverseNodes_Strict(nodes, i + 1, charCount + Len(nodes[i]),
                                   cursorOffset)

\* the first text node at whose end the running count of characters has
\* reached cursorOffset, and the offset of the caret inside it
RECURSIVE traverseNodes(_, _, _, _)
traverseNodes(nodes, i, charCount, cursorOffset) ==
    IF i > Len(nodes)
    THEN [found |-> FALSE, node |-> 0, offset |-> 0]
    ELSE IF charCount + Len(nodes[i]) >= cursorOffset
         THEN [found |-> TRUE, node |-> i, offset |-> cursorOffset - charCount]
         ELSE traverseNodes(nodes, i + 1, charCount + Len(nodes[i]),
                            cursorOffset)

\* where the caret is after innerHTML was written and the saved offset
\* restored: writing innerHTML collapses the selection to the start of the
\* field, and it stays there when no text node takes the saved offset
restoredCaret(coloredHtml, cursorOffset) ==
    LET nodes == textNodes(coloredHtml)
        position == traverseNodes(nodes, 1, 0, cursorOffset)
    IN  IF isTruthyHtml(coloredHtml) /\ position.found
        THEN getCursorPosition(nodes, position)
        ELSE 0

\* the animation frame requested by the effect on [userInput, direction]:
\* unless the field already holds it, the output of renderColoredText is
\* written to the field's innerHTML and the caret is put back
updateColoredText ==
    LET coloredHtml ==
            renderColoredText(card, direction, userInput, progress, cursorPos)
    IN  /\ rendered' = coloredHtml
        /\ cursorPos' =
              IF innerHTML(rendered) = coloredHtml
              THEN cursorPos
              ELSE restoredCaret(coloredHtml, cursorPos)
        /\ lastEvent' =
              [kind |-> "frame", text |-> userInput, cursor |-> cursorPos,
               written |-> innerHTML(rendered) # coloredHtml]
        /\ UNCHANGED <<example, direction, userInput, progress, appProgress,
                       userProgress, frames, levelVars, navVars,
                       emitted, phase>>

InitRender == InitOn(RenderExamples)

NextRender ==
    \/ \E t \in RenderTexts(card, direction) : RenderInput(t)
    \/ \E c \in 0..Len(userInput) : MoveCaret(c)
    \/ updateColoredText
    \/ handleDirectionToggle

SpecRender == InitRender /\ [][NextRender]_vars

(***************************************************************************)
(* SpecWords: the field of a card whose sentence has several words, typed  *)
(* into with texts that exercise the marking of incorrect words.           *)
(***************************************************************************)
WordExamples == {"E6", "E8"}

WordTexts ==
    [id \in WordExamples |->
        IF id = "E6"
        THEN {<<"B", "e", "n", " ", "k", "i", "t", "a">>,
              <<"B", "e", "n", " ", "x", "y", "z", " ", "o", "k", "u", "y", "o", "r", "u", "m">>,
              <<"B", "e", " ", "k", "i", "t", "a", "b", "i">>,
              <<"B", "e", "n", " ", "x", "y", "z", " ", "o", "k", "u">>,
              <<"B", "e", " ", "o", "k", "u", "y", "o", "r", "u", "m">>,
              <<"k", "i", "t", "a", "o", "k", "u", "y", "o", "r", "u", "m", " ", "b", "e", "n">>,
              <<"B", "e", "n", " ", ".", ".", " ", "o", "k", "u">>,
              <<"b", "e", "n", " ", "k", "i", "t", "a", "b", "i", " ", "o", "k", "u", "y", "o", "r", "u", "m">>}
        ELSE {<<"g", "e", "l", "i", "n", " ", "g", "e", "l">>,
              <<"g", "e", "l", " ", "x", "y">>}]

InitWords == InitOn(WordExamples)

NextWords ==
    \/ \E t \in WordTexts[example] : RenderInput(t)
    \/ \E c \in 0..Len(userInput) : MoveCaret(c)
    \/ updateColoredText

SpecWords == InitWords /\ [][NextWords]_vars

(***************************************************************************)
(* SpecVerb: the field of cards whose verb is found whole in the input,    *)
(* with buffer vowels and dropped vowels in the surface form.              *)
(***************************************************************************)
VerbExamples == {"E1", "E2", "E4", "E7", "E9"}

VerbTexts ==
    {card.turkish_verb.verb_full,
     <<"x", " ">> \o card.turkish_verb.verb_full,
     toLowerCase(stripDots(getTargetSentence(card, direction)))}

InitVerb == InitOn(VerbExamples)

NextVerb ==
    \/ \E t \in VerbTexts : RenderInput(t)
    \/ \E c \in 0..Len(userInput) : MoveCaret(c)
    \/ updateColoredText

SpecVerb == InitVerb /\ [][NextVerb]_vars

(***************************************************************************)
(* SpecPartial: the field of cards while the verb is typed in part, or     *)
(* not at all.                                                             *)
(***************************************************************************)
PartialExamples == {"E1", "E2", "E6"}

PartialTexts ==
    LET tv == card.turkish_verb
    IN  {tv.root,
         tv.root \o tv.tense_affix,
         tv.root \o tv.personal_affix,
         substring(tv.verb_full, 0, Len(tv.verb_full) - 1),
         <<"x", " ">> \o tv.root \o tv.negative_affix \o <<" ", "x">>,
         <<"B", "e", " ", "x">>}

InitPartial == InitOn(PartialExamples)

NextPartial ==
    \/ \E t \in PartialTexts : RenderInput(t)
    \/ \E c \in 0..Len(userInput) : MoveCaret(c)
    \/ updateColoredText

SpecPartial == InitPartial /\ [][NextPartial]_vars

(***************************************************************************)
(* SpecFrames: the animation frames requested by the effect on             *)
(* [userInput, direction].  Each render of the component requests a frame  *)
(* whose callback is the updateColoredText of that render, closed over the *)
(* render's userInput, progress, direction and example; a requested frame  *)
(* is never cancelled.  The caret is read from the field when the callback *)
(* runs.                                                                   *)
(***************************************************************************)
FrameExamples == {"E1", "E10"}

\* the verb as it is being typed, one more character at a time, and the
\* whole answer
FrameTexts ==
    LET verb == card.turkish_verb.verb_full
    IN  {substring(verb, 0, n) : n \in 1..Len(verb)}
        \cup {getTargetSentence(card, direction)}

\* what the callback of a render's frame has closed over
renderClosure(text, p) ==
    [example |-> example, direction |-> direction, userInput |-> text,
     progress |-> p]

\* the frames one input event requests: one for the render that follows
\* setUserInput(t) if the text changed, and one more for the render that
\* follows the effect on [progress.fullSentence, example] if it rewrote
\* the text
requestAnimationFrame(t, newText, newProgress) ==
    (IF t # userInput
     THEN <<renderClosure(t, newProgress)>> ELSE << >>)
    \o (IF newText # t
        THEN <<renderClosure(newText, newProgress)>> ELSE << >>)

\* onInput of the field followed by the renders it causes
FrameInput(t) ==
    LET r == checkProgressRealTime(t, card, direction, progress)
        newProgress == IF r.hasChanges THEN r.newProgress ELSE progress
        newText ==
            IF r.hasChanges /\ newProgress.fullSentence # progress.fullSentence
            THEN revealEffect(card, direction, newProgress, t)
            ELSE t
        requested == requestAnimationFrame(t, newText, newProgress)
    IN  /\ Len(frames) + Len(requested) <= MaxFrames
        /\ onInput(t)
        /\ cursorPos' = Len(t)
        /\ frames' = frames \o requested
        /\ UNCHANGED <<appProgress, userProgress, levelVars, navVars>>

\* the source language selector while the target is Turkish: the direction
\* prop changes, the effect on [direction] sets the text, and the renders
\* that follow request their frames
FrameSourceLanguage(newSource) ==
    LET newDirection == IF newSource = "english" THEN "english-to-turkish"
                        ELSE "russian-to-turkish"
        newText == directionEffect(card, newDirection, progress)
        closureOf(text) ==
            [example |-> example, direction |-> newDirection,
             userInput |-> text, progress |-> progress]
        requested ==
            <<closureOf(userInput)>>
            \o (IF newText # userInput THEN <<closureOf(newText)>>
                ELSE << >>)
    IN  /\ newDirection # direction
        /\ Len(frames) + Len(requested) <= MaxFrames
        /\ direction' = newDirection
        /\ userInput' = newText
        /\ frames' = frames \o requested
        /\ lastEvent' = [kind |-> "direction", text |-> << >>]
        /\ emitted' = noCall
        /\ phase' = "none"
        /\ UNCHANGED <<example, progress, appProgress, userProgress,
                       cursorPos, rendered, levelVars, navVars>>

\* the browser runs the callback of the oldest requested frame: the
\* updateColoredText of the render that requested it
animationFrame ==
    /\ frames # << >>
    /\ LET closure == Head(frames)
           coloredHtml ==
               renderColoredText(exampleData[closure.example],
                                 closure.direction, closure.userInput,
                                 closure.progress, cursorPos)
       IN  /\ rendered' = coloredHtml
           /\ cursorPos' =
                 IF innerHTML(rendered) = coloredHtml
                 THEN cursorPos
                 ELSE restoredCaret(coloredHtml, cursorPos)
           /\ lastEvent' =
                 [kind |-> "frame", text |-> closure.userInput,
                  cursor |-> cursorPos,
                  written |-> innerHTML(rendered) # coloredHtml]
    /\ frames' = Tail(frames)
    /\ UNCHANGED <<example, direction, userInput, progress, appProgress,
                   userProgress, levelVars, navVars, emitted, phase>>

InitFrames == InitOn(FrameExamples)

NextFrames ==
    \/ \E t \in FrameTexts : FrameInput(t)
    \/ \E newSource \in {"english", "russian"} :
            FrameSourceLanguage(newSource)
    \/ animationFrame

SpecFrames == InitFrames /\ [][NextFrames]_vars

(***************************************************************************)
(* SpecLevel: the card and the fetch of the tense-to-level mapping that    *)
(* the effect on [currentTense] starts.  A fetch is pending under the      *)
(* tense its loadTenseLevel has closed over; it is never aborted.          *)
(***************************************************************************)
LevelExamples == {"E1"}

Tenses == {"gecmis_zaman", "simdiki_zaman"}

Levels == {"A1", "B1"}

\* the mappings a response can parse to: a tense has a level or is missing
TenseLevelMappings == [Tenses -> Levels \cup {"null"}]

\* the verb typed one more character at a time, and the whole answer
LevelTexts == FrameTexts \cup {getTargetSentence(card, direction)}

\* the catch of loadTenseLevel: setTenseLevel(null)
loadTenseLevelCatch_KeepsLevel == tenseLevel

loadTenseLevelCatch == "null"

\* the currentTense prop changes and the effect starts a fetch
setCurrentTense(tense) ==
    /\ tense # currentTense
    /\ currentTense' = tense
    /\ fetches' = fetches \cup {tense}
    /\ lastEvent' = [kind |-> "tense", text |-> << >>]
    /\ UNCHANGED <<example, direction, userInput, progress, appProgress,
                   userProgress, cursorPos, rendered, frames, tenseLevel,
                   emitted, phase, navVars>>

\* a fetch is answered and the answer parses to a mapping:
\* setTenseLevel(mapping[currentTense] || null)
loadTenseLevelResolved(tense, mapping) ==
    /\ tense \in fetches
    /\ tenseLevel' = mapping[tense]
    /\ fetches' = fetches \ {tense}
    /\ lastEvent' = [kind |-> "levelLoaded", text |-> << >>]
    /\ UNCHANGED <<example, direction, userInput, progress, appProgress,
                   userProgress, cursorPos, rendered, frames, currentTense,
                   emitted, phase, navVars>>

\* a fetch is rejected, or its answer does not parse
loadTenseLevelFailed(tense) ==
    /\ tense \in fetches
    /\ tenseLevel' = loadTenseLevelCatch
    /\ fetches' = fetches \ {tense}
    /\ lastEvent' = [kind |-> "levelFailed", text |-> << >>]
    /\ UNCHANGED <<example, direction, userInput, progress, appProgress,
                   userProgress, cursorPos, rendered, frames, currentTense,
                   emitted, phase, navVars>>

InitLevel == InitOn(LevelExamples)

NextLevel ==
    \/ \E t \in LevelTexts : CardInput(t)
    \/ \E tense \in Tenses : setCurrentTense(tense)
    \/ \E tense \in Tenses, mapping \in TenseLevelMappings :
            loadTenseLevelResolved(tense, mapping)
    \/ \E tense \in Tenses : loadTenseLevelFailed(tense)

SpecLevel == InitLevel /\ [][NextLevel]_vars

(***************************************************************************)
(* The files read by the DataLoader: verbs_index.json, the index of each   *)
(* verb, tense_level_mapping.json and the example files the indexes point  *)
(* to.                                                                     *)
(***************************************************************************)
indexEntry(tense, pronoun, polarity) ==
    [tense |-> tense, pronoun |-> pronoun, polarity |-> polarity]

\* what Array.prototype.find returns when no entry passes the test
noEntry == indexEntry("null", "null", "null")

\* verbs_index.json
verbsIndex ==
    <<[rank |-> 1, verb_english |-> "be"],
      [rank |-> 2, verb_english |-> "have"],
      [rank |-> 3, verb_english |-> "go"]>>

\* the examples of the index of each verb: 'have' has none
verbIndex ==
    [verb \in {"be", "have", "go"} |->
        CASE verb = "be" ->
                <<indexEntry("simdiki_zaman", "ben", "positive"),
                  indexEntry("simdiki_zaman", "sen", "positive"),
                  indexEntry("gecmis_zaman", "ben", "negative")>>
          [] verb = "go" ->
                <<indexEntry("emir_kipi", "none", "positive")>>
          [] OTHER -> << >>]

\* tense_level_mapping.json
tenseLevelMapping ==
    [tense \in {"simdiki_zaman", "gecmis_zaman", "emir_kipi"} |->
        CASE tense = "simdiki_zaman" -> "A1"
          [] tense = "gecmis_zaman" -> "A2"
          [] OTHER -> "B1"]

NavTenses == DOMAIN tenseLevelMapping

NavPronouns == {"ben", "sen", "none", "null"}

Polarities == {"positive", "negative"}

\* the levels offered by the level selector that the model uses
LevelFilters == {"All", "A1"}

\* verbsIndex.verbs.find(v => v.verb_english === verbEnglish)
knownVerb(verbEnglish) ==
    \E i \in DOMAIN verbsIndex : verbsIndex[i].verb_english = verbEnglish

rankOf(verbEnglish) ==
    LET i == CHOOSE k \in DOMAIN verbsIndex :
                 verbsIndex[k].verb_english = verbEnglish
    IN  verbsIndex[i].rank

\* variant: the files of 'ben' and 'sen' store each other's pronoun
exampleFile_SwappedPronouns(verbEnglish, entry) ==
    [verb_english |-> verbEnglish,
     verb_rank |-> rankOf(verbEnglish),
     verb_tense |-> entry.tense,
     personal_pronoun |->
        CASE entry.pronoun = "ben" -> "sen"
          [] entry.pronoun = "sen" -> "ben"
          [] OTHER -> "null",
     polarity |-> entry.polarity]

\* the example file an index entry points to: the forms without a pronoun
\* are indexed as 'none' and store null
exampleFile(verbEnglish, entry) ==
    [verb_english |-> verbEnglish,
     verb_rank |-> rankOf(verbEnglish),
     verb_tense |-> entry.tense,
     personal_pronoun |->
        IF entry.pronoun = "none" THEN "null" ELSE entry.pronoun,
     polarity |-> entry.polarity]

(***************************************************************************)
(* DataLoader.                                                             *)
(***************************************************************************)
\* Array.prototype.find: the first of the elements that pass the test,
\* given the positions of those elements
find(array, hits) ==
    IF hits = {} THEN noEntry
    ELSE array[CHOOSE i \in hits : \A j \in hits : i <= j]

\* Array.prototype.indexOf, counting from 0
indexOfItem(array, item) ==
    LET hits == {i \in DOMAIN array : array[i] = item}
    IN  IF hits = {} THEN -1
        ELSE (CHOOSE i \in hits : \A j \in hits : i <= j) - 1

\* array[index], undefined outside the array
itemAt(array, index) ==
    IF index + 1 \in DOMAIN array THEN array[index + 1] ELSE "null"

oppositePolarity(polarity) ==
    IF polarity = "positive" THEN "negative" ELSE "positive"

\* the entry loadTrainingExample settles on and the tense, pronoun and
\* polarity it takes for the actual ones
resolveExample(verbEnglish, pronoun, tense, polarity) ==
    LET examples == verbIndex[verbEnglish]
        passing(Test(_)) == {i \in DOMAIN examples : Test(examples[i])}
        isExact(ex) == ex.tense = tense /\ ex.pronoun = pronoun
                          /\ ex.polarity = polarity
        isAnyPronoun(ex) == ex.tense = tense /\ ex.polarity = polarity
        isOpposite(ex) == ex.tense = tense /\ ex.pronoun = pronoun
                             /\ ex.polarity = oppositePolarity(polarity)
        isSamePronoun(ex) == ex.pronoun = pronoun
        exact == find(examples, passing(isExact))
        anyPronoun == find(examples, passing(isAnyPronoun))
        opposite == find(examples, passing(isOpposite))
        samePronoun == find(examples, passing(isSamePronoun))
        found(entry, actualTense, actualPronoun, actualPolarity) ==
            [example |-> entry, actualTense |-> actualTense,
             actualPronoun |-> actualPronoun,
             actualPolarity |-> actualPolarity]
    IN  IF exact # noEntry
        THEN found(exact, tense, pronoun, polarity)
        ELSE IF anyPronoun # noEntry
        THEN found(anyPronoun, tense, anyPronoun.pronoun, polarity)
        ELSE IF opposite # noEntry
        THEN found(opposite, tense, pronoun, oppositePolarity(polarity))
        ELSE IF samePronoun # noEntry
        THEN found(samePronoun, samePronoun.tense, pronoun,
                   samePronoun.polarity)
        ELSE IF examples # << >>
        THEN found(examples[1], examples[1].tense, examples[1].pronoun,
                   examples[1].polarity)
        ELSE found(noEntry, tense, pronoun, polarity)

\* variant: the key of the requested tense, pronoun and polarity
cacheKey_OfRequest(verbEnglish, pronoun, tense, polarity) ==
    <<verbEnglish, pronoun, tense, polarity>>

\* `${verbEnglish}-${actualPronoun}-${actualTense}-${actualPolarity}`
cacheKey(verbEnglish, pronoun, tense, polarity) ==
    LET r == resolveExample(verbEnglish, pronoun, tense, polarity)
    IN  <<verbEnglish, r.actualPronoun, r.actualTense, r.actualPolarity>>

\* the request ends before the cache is looked at: the verb is not in the
\* index or has no entries
endsWithoutExample(verbEnglish, pronoun, tense, polarity) ==
    \/ ~knownVerb(verbEnglish)
    \/ resolveExample(verbEnglish, pronoun, tense, polarity).example = noEntry

\* the request finds its example in trainingExampleCache
cacheHit(verbEnglish, pronoun, tense, polarity, cache) ==
    /\ ~endsWithoutExample(verbEnglish, pronoun, tense, polarity)
    /\ cacheKey(verbEnglish, pronoun, tense, polarity) \in cache

\* the example that loadTrainingExample returns when no fetch fails
loadedExample(verbEnglish, pronoun, tense, polarity) ==
    exampleFile(verbEnglish,
                resolveExample(verbEnglish, pronoun, tense, polarity).example)

\* [...new Set(array)]: the first occurrence of each item
unique(array) ==
    LET RECURSIVE uniq(_)
        uniq(n) ==
            IF n = 0 THEN << >>
            ELSE IF \E j \in 1..(n - 1) : array[j] = array[n]
                 THEN uniq(n - 1)
                 ELSE Append(uniq(n - 1), array[n])
    IN  uniq(Len(array))

\* languageLevel.split('-') of the levels that include a '-'
splitLevel(level) ==
    CASE level = "A1-A2" -> {"A1", "A2"}
      [] level = "B1-B2" -> {"B1", "B2"}
      [] OTHER -> {}

\* the filter of getAvailableTenses
passesLevel(tenseName, level) ==
    /\ tenseName \in DOMAIN tenseLevelMapping
    /\ \/ tenseLevelMapping[tenseName] = level
       \/ tenseLevelMapping[tenseName] \in splitLevel(level)

\* level is 'All' where the caller passes no languageLevel
getAvailableTenses(verbEnglish, level) ==
    IF ~knownVerb(verbEnglish) THEN << >>
    ELSE LET tenses ==
                 unique([i \in DOMAIN verbIndex[verbEnglish] |->
                            verbIndex[verbEnglish][i].tense])
             passes(tenseName) == passesLevel(tenseName, level)
         IN  IF level # "All" THEN SelectSeq(tenses, passes) ELSE tenses

getAvailablePronouns(verbEnglish, tense, polarity) ==
    IF ~knownVerb(verbEnglish) THEN << >>
    ELSE LET wanted(ex) == ex.tense = tense /\ ex.polarity = polarity
             other(ex) == ex.tense = tense
                             /\ ex.polarity = oppositePolarity(polarity)
             pronounsOf(entries) ==
                 [i \in DOMAIN entries |-> entries[i].pronoun]
             pronouns ==
                 pronounsOf(SelectSeq(verbIndex[verbEnglish], wanted))
         IN  IF pronouns = << >>
             THEN pronounsOf(SelectSeq(verbIndex[verbEnglish], other))
             ELSE pronouns

\* variant: no wrap at the end of the list
nextOf_NoWrap(array, current) ==
    IF indexOfItem(array, current) = -1 THEN itemAt(array, 0)
    ELSE itemAt(array, indexOfItem(array, current) + 1)

\* the body shared by getNextTense and getNextPronoun
nextOf(array, current) ==
    IF indexOfItem(array, current) = -1 THEN itemAt(array, 0)
    ELSE IF indexOfItem(array, current) >= Len(array) - 1 THEN itemAt(array, 0)
    ELSE itemAt(array, indexOfItem(array, current) + 1)

\* the body shared by getPrevTense and getPrevPronoun
prevOf(array, current) ==
    IF indexOfItem(array, current) = -1 THEN itemAt(array, Len(array) - 1)
    ELSE IF indexOfItem(array, current) <= 0 THEN itemAt(array, Len(array) - 1)
    ELSE itemAt(array, indexOfItem(array, current) - 1)

getNextTense(verbEnglish, tense, level) ==
    nextOf(getAvailableTenses(verbEnglish, level), tense)

getPrevTense(verbEnglish, tense, level) ==
    prevOf(getAvailableTenses(verbEnglish, level), tense)

getNextPronoun(verbEnglish, tense, pronoun, polarity) ==
    nextOf(getAvailablePronouns(verbEnglish, tense, polarity), pronoun)

getPrevPronoun(verbEnglish, tense, pronoun, polarity) ==
    prevOf(getAvailablePronouns(verbEnglish, tense, polarity), pronoun)

(***************************************************************************)
(* Navigation in App.  A handler runs to its last setState in one step:    *)
(* the indexes it awaits are cached once the first example is on display.  *)
(* The card that App renders with this state is the subject of the other   *)
(* specifications and is left alone here.                                  *)
(***************************************************************************)
cardVars ==
    <<example, direction, userInput, progress, appProgress, userProgress,
      cursorPos, rendered, frames, tenseLevel, fetches, emitted, phase>>

\* currentPronoun || 'ben'
orBen(pronoun) == IF pronoun = "null" THEN "ben" ELSE pronoun

\* currentPronoun || ''
orEmpty(pronoun) == IF pronoun = "null" THEN "" ELSE pronoun

\* nextPronoun === 'none' ? null : nextPronoun
noneToNull(pronoun) == IF pronoun = "none" THEN "null" ELSE pronoun

\* the call of loadCurrentExample made by a render with this state: its
\* closure, and whether loadTrainingExample finds the example in the cache
loadOf(verb, pronoun, tense, polarity, cache) ==
    [verb |-> verb, pronoun |-> pronoun, tense |-> tense,
     polarity |-> polarity,
     cached |-> cacheHit(verb, orBen(pronoun), tense, polarity, cache)]

\* the effect on [currentVerb, currentTense, currentPronoun,
\* currentPolarity]: a render that changes one of them calls
\* loadCurrentExample
loadsAfter(pending, verb, pronoun, tense, polarity, cache) ==
    IF <<verb, tense, pronoun, polarity>>
          # <<currentVerb, currentTense, currentPronoun, currentPolarity>>
    THEN pending (+) SetToBag({loadOf(verb, pronoun, tense, polarity, cache)})
    ELSE pending

\* the render after a handler has set the navigation state
navigate(kind, verb, tense, pronoun, polarity) ==
    /\ currentVerb' = verb
    /\ currentTense' = tense
    /\ currentPronoun' = pronoun
    /\ currentPolarity' = polarity
    /\ loads' = loadsAfter(loads, verb, pronoun, tense, polarity,
                           trainingExampleCache)
    /\ lastEvent' = [kind |-> kind, text |-> << >>]
    /\ UNCHANGED <<currentRank, languageLevel, currentExample,
                   trainingExampleCache, cardVars>>

handleGoToVerb(kind, verb) ==
    navigate(kind, verb, "simdiki_zaman", "ben", currentPolarity)

handleGoToTense(kind, tense) ==
    navigate(kind, currentVerb, tense, "ben", currentPolarity)

handleGoToPronoun(kind, pronoun) ==
    navigate(kind, currentVerb, currentTense, pronoun, currentPolarity)

\* getNextTense(currentVerb, currentTense): no languageLevel is passed
levelOfAppHandlers == "All"

handleNextTense(kind) ==
    LET nextTense == getNextTense(currentVerb, currentTense,
                                  levelOfAppHandlers)
    IN  IF nextTense # "null"
        THEN navigate(kind, currentVerb, nextTense, "ben", currentPolarity)
        ELSE navigate(kind, currentVerb, currentTense, currentPronoun,
                      currentPolarity)

handlePrevTense(kind) ==
    LET prevTense == getPrevTense(currentVerb, currentTense,
                                  levelOfAppHandlers)
    IN  IF prevTense # "null"
        THEN navigate(kind, currentVerb, prevTense, "ben", currentPolarity)
        ELSE navigate(kind, currentVerb, currentTense, currentPronoun,
                      currentPolarity)

handleNextPronoun(kind) ==
    LET nextPronoun == getNextPronoun(currentVerb, currentTense,
                                      orEmpty(currentPronoun),
                                      currentPolarity)
    IN  IF nextPronoun # "null"
        THEN handleGoToPronoun(kind, noneToNull(nextPronoun))
        ELSE handleGoToPronoun(kind, currentPronoun)

handlePrevPronoun(kind) ==
    LET prevPronoun == getPrevPronoun(currentVerb, currentTense,
                                      orEmpty(currentPronoun),
                                      currentPolarity)
    IN  IF prevPronoun # "null"
        THEN handleGoToPronoun(kind, noneToNull(prevPronoun))
        ELSE handleGoToPronoun(kind, currentPronoun)

\* handleNextPolarity and handlePrevPolarity have the same body
handleNextPolarity(maxPending) ==
    /\ BagCardinality(loads) < maxPending
    /\ navigate("polarity", currentVerb, currentTense, currentPronoun,
                oppositePolarity(currentPolarity))

(***************************************************************************)
(* The buttons of NavigationControls.                                      *)
(***************************************************************************)
\* verbsWithRanks.find(v => v.rank === rank)
verbOfRank(rank) ==
    LET hits == {i \in DOMAIN verbsIndex : verbsIndex[i].rank = rank}
    IN  IF hits = {} THEN "null"
        ELSE verbsIndex[CHOOSE i \in hits : \A j \in hits : i <= j]
                .verb_english

nextRank(rank) == IF rank < Len(verbsIndex) THEN rank + 1 ELSE 1

prevRank(rank) == IF rank > 1 THEN rank - 1 ELSE Len(verbsIndex)

handleNextVerbWithWrap(maxPending) ==
    /\ BagCardinality(loads) < maxPending
    /\ IF verbOfRank(nextRank(currentRank)) # "null"
       THEN handleGoToVerb("nextVerb", verbOfRank(nextRank(currentRank)))
       ELSE navigate("nextVerb", currentVerb, currentTense, currentPronoun,
                     currentPolarity)

handlePrevVerbWithWrap(maxPending) ==
    /\ BagCardinality(loads) < maxPending
    /\ IF verbOfRank(prevRank(currentRank)) # "null"
       THEN handleGoToVerb("prevVerb", verbOfRank(prevRank(currentRank)))
       ELSE navigate("prevVerb", currentVerb, currentTense, currentPronoun,
                     currentPolarity)

handleNextTenseWithWrap(maxPending) ==
    /\ BagCardinality(loads) < maxPending
    /\ LET allTenses == getAvailableTenses(currentVerb, languageLevel)
           firstTense == itemAt(allTenses, 0)
       IN  IF getNextTense(currentVerb, currentTense, languageLevel) # "null"
           THEN handleNextTense("nextTense")
           ELSE IF firstTense # "null" /\ firstTense # currentTense
           THEN handleGoToTense("nextTense", firstTense)
           ELSE navigate("nextTense", currentVerb, currentTense,
                         currentPronoun, currentPolarity)

handlePrevTenseWithWrap(maxPending) ==
    /\ BagCardinality(loads) < maxPending
    /\ LET allTenses == getAvailableTenses(currentVerb, languageLevel)
           lastTense == itemAt(allTenses, Len(allTenses) - 1)
       IN  IF getPrevTense(currentVerb, currentTense, languageLevel) # "null"
           THEN handlePrevTense("prevTense")
           ELSE IF lastTense # "null" /\ lastTense # currentTense
           THEN handleGoToTense("prevTense", lastTense)
           ELSE navigate("prevTense", currentVerb, currentTense,
                         currentPronoun, currentPolarity)

\* the polarity is left to its default 'positive' by these two handlers
handleNextPronounWithWrap(maxPending) ==
    /\ BagCardinality(loads) < maxPending
    /\ LET allPronouns ==
               getAvailablePronouns(currentVerb, currentTense, "positive")
           firstPronoun == itemAt(allPronouns, 0)
       IN  IF getNextPronoun(currentVerb, currentTense,
                             orEmpty(currentPronoun), "positive") # "null"
           THEN handleNextPronoun("nextPronoun")
           ELSE IF firstPronoun # "null" /\ firstPronoun # currentPronoun
           THEN handleGoToPronoun("nextPronoun", firstPronoun)
           ELSE handleGoToPronoun("nextPronoun", currentPronoun)

handlePrevPronounWithWrap(maxPending) ==
    /\ BagCardinality(loads) < maxPending
    /\ LET allPronouns ==
               getAvailablePronouns(currentVerb, currentTense, "positive")
           lastPronoun == itemAt(allPronouns, Len(allPronouns) - 1)
       IN  IF getPrevPronoun(currentVerb, currentTense,
                             orEmpty(currentPronoun), "positive") # "null"
           THEN handlePrevPronoun("prevPronoun")
           ELSE IF lastPronoun # "null" /\ lastPronoun # currentPronoun
           THEN handleGoToPronoun("prevPronoun", lastPronoun)
           ELSE handleGoToPronoun("prevPronoun", currentPronoun)

\* the level selector: the tense moves to the first one of the level when
\* it is not among them, and the example is loaded again when it is
handleLevelChange(maxPending, level) ==
    LET availableTenses == getAvailableTenses(currentVerb, level)
        newTense ==
            IF indexOfItem(availableTenses, currentTense) = -1
                  /\ Len(availableTenses) > 0
            THEN availableTenses[1] ELSE currentTense
    IN  /\ BagCardinality(loads) < maxPending
        /\ level # languageLevel
        /\ languageLevel' = level
        /\ currentTense' = newTense
        /\ loads' =
              IF indexOfItem(availableTenses, currentTense) # -1
                    \/ newTense # currentTense
              THEN loads (+) SetToBag({loadOf(currentVerb, currentPronoun,
                                              newTense, currentPolarity,
                                              trainingExampleCache)})
              ELSE loads
        /\ lastEvent' = [kind |-> "level", text |-> << >>]
        /\ UNCHANGED <<currentVerb, currentPronoun, currentPolarity,
                       currentRank, currentExample, trainingExampleCache,
                       cardVars>>

\* the pending calls once one of them has settled
settled(pending, load) == pending (-) SetToBag({load})

\* the await of a call of loadCurrentExample returns an example: it is put
\* on display and the navigation state that differs from it, as the call
\* saw that state, is set to it
loadCurrentExampleResolved(load) ==
    LET loaded == loadedExample(load.verb, orBen(load.pronoun), load.tense,
                                load.polarity)
        newTense ==
            IF loaded.verb_tense # load.tense
            THEN loaded.verb_tense ELSE currentTense
        newPronoun ==
            IF loaded.personal_pronoun # load.pronoun
            THEN loaded.personal_pronoun ELSE currentPronoun
        newPolarity ==
            IF loaded.polarity # load.polarity
            THEN loaded.polarity ELSE currentPolarity
        newCache ==
            trainingExampleCache
               \cup {cacheKey(load.verb, orBen(load.pronoun), load.tense,
                              load.polarity)}
    IN  /\ BagIn(load, loads)
        /\ ~endsWithoutExample(load.verb, orBen(load.pronoun), load.tense,
                               load.polarity)
        /\ currentExample' = loaded
        /\ currentRank' = loaded.verb_rank
        /\ currentTense' = newTense
        /\ currentPronoun' = newPronoun
        /\ currentPolarity' = newPolarity
        /\ trainingExampleCache' = newCache
        /\ loads' = loadsAfter(settled(loads, load), currentVerb, newPronoun,
                               newTense, newPolarity, newCache)
        /\ lastEvent' =
              [kind |-> "loaded", text |-> << >>, cached |-> load.cached,
               synced |-> <<newTense, newPronoun, newPolarity>>
                            # <<currentTense, currentPronoun,
                                currentPolarity>>]
        /\ UNCHANGED <<currentVerb, languageLevel, cardVars>>

\* the await returns null: the verb is not in the index or has no entries,
\* or the example is not in the cache and a fetch fails
loadCurrentExampleFailed(load) ==
    /\ BagIn(load, loads)
    /\ ~load.cached
    /\ currentExample' = noExample
    /\ loads' = settled(loads, load)
    /\ lastEvent' = [kind |-> "loadFailed", text |-> << >>]
    /\ UNCHANGED <<currentVerb, currentTense, currentPronoun,
                   currentPolarity, currentRank, languageLevel,
                   trainingExampleCache, cardVars>>

(***************************************************************************)
(* SpecNav: App with the buttons of NavigationControls and the level       *)
(* selector.  The user presses a button while fewer than MaxWaiting calls  *)
(* of loadCurrentExample are pending.                                      *)
(***************************************************************************)
NavExamples == {"E7"}

\* the closures that a call of loadCurrentExample can hold
LoadClosures ==
    [verb : {"be", "have", "go"}, pronoun : NavPronouns, tense : NavTenses,
     polarity : Polarities, cached : BOOLEAN]

InitNav == InitOn(NavExamples)

NextNav ==
    \/ handleNextVerbWithWrap(MaxWaiting)
    \/ handlePrevVerbWithWrap(MaxWaiting)
    \/ handleNextTenseWithWrap(MaxWaiting)
    \/ handlePrevTenseWithWrap(MaxWaiting)
    \/ handleNextPronounWithWrap(MaxWaiting)
    \/ handlePrevPronounWithWrap(MaxWaiting)
    \/ handleNextPolarity(MaxWaiting)
    \/ \E level \in LevelFilters : handleLevelChange(MaxWaiting, level)
    \/ \E load \in LoadClosures : loadCurrentExampleResolved(load)
    \/ \E load \in LoadClosures : loadCurrentExampleFailed(load)

SpecNav == InitNav /\ [][NextNav]_vars

(***************************************************************************)
(* SpecLoads: the user navigates on while fewer than MaxLoads calls of     *)
(* loadCurrentExample are pending, and the calls settle in any order.      *)
(***************************************************************************)
NextLoads ==
    \/ handleNextTenseWithWrap(MaxLoads)
    \/ handleNextPronounWithWrap(MaxLoads)
    \/ handleNextPolarity(MaxLoads)
    \/ \E load \in LoadClosures : loadCurrentExampleResolved(load)
    \/ \E load \in LoadClosures : loadCurrentExampleFailed(load)

SpecLoads == InitNav /\ [][NextLoads]_vars


(***************************************************************************)
(* SpecLoader: the DataLoader alone.  Every request that can be made of    *)
(* loadTrainingExample is made, one call at a time, and the fetch of an    *)
(* example file succeeds or fails.                                         *)
(***************************************************************************)
RequestVerbs == {"be", "have", "go", "see"}

\* one call of loadTrainingExample from its first line to its return
loadTrainingExample(verbEnglish, pronoun, tense, polarity, fetchOk) ==
    LET hit == cacheHit(verbEnglish, pronoun, tense, polarity,
                        trainingExampleCache)
        fetched ==
            /\ ~endsWithoutExample(verbEnglish, pronoun, tense, polarity)
            /\ ~hit
        returned ==
            IF endsWithoutExample(verbEnglish, pronoun, tense, polarity)
                  \/ (fetched /\ ~fetchOk)
            THEN noExample
            ELSE loadedExample(verbEnglish, pronoun, tense, polarity)
    IN  /\ fetched \/ fetchOk
        /\ trainingExampleCache' =
              IF fetched /\ fetchOk
              THEN trainingExampleCache
                      \cup {cacheKey(verbEnglish, pronoun, tense, polarity)}
              ELSE trainingExampleCache
        /\ lastEvent' =
              [kind |-> "loadTrainingExample", text |-> << >>,
               request |-> <<verbEnglish, pronoun, tense, polarity>>,
               fetched |-> fetched, fetchOk |-> fetchOk,
               returned |-> returned]
        /\ UNCHANGED <<currentVerb, currentTense, currentPronoun,
                       currentPolarity, currentRank, languageLevel,
                       currentExample, loads, cardVars>>

NextLoader ==
    \E verbEnglish \in RequestVerbs, pronoun \in NavPronouns \ {"null"},
       tense \in NavTenses, polarity \in Polarities, fetchOk \in BOOLEAN :
        loadTrainingExample(verbEnglish, pronoun, tense, polarity, fetchOk)

SpecLoader == InitNav /\ [][NextLoader]_vars

(***************************************************************************)
(* SpecSync: App is left alone in some navigation state, with the call of  *)
(* loadCurrentExample that the render of that state made.  Every call      *)
(* settles: a fetch is answered or fails.                                  *)
(***************************************************************************)
InitSync ==
    /\ example \in NavExamples
    /\ direction = "english-to-turkish"
    /\ userInput = << >>
    /\ progress = noProgress
    /\ appProgress = noProgress
    /\ userProgress = initialUserProgress
    /\ cursorPos = 0
    /\ rendered = << >>
    /\ frames = << >>
    /\ currentTense \in NavTenses
    /\ tenseLevel = "null"
    /\ fetches = {currentTense}
    /\ lastEvent = [kind |-> "mount", text |-> << >>]
    /\ emitted = noCall
    /\ phase = "none"
    /\ currentVerb \in {verbsIndex[i].verb_english : i \in DOMAIN verbsIndex}
    /\ currentPronoun \in NavPronouns
    /\ currentPolarity \in Polarities
    /\ currentRank \in {verbsIndex[i].rank : i \in DOMAIN verbsIndex}
    /\ languageLevel = "All"
    /\ currentExample = noExample
    /\ trainingExampleCache = {}
    /\ loads = SetToBag({loadOf(currentVerb, currentPronoun, currentTense,
                                currentPolarity, trainingExampleCache)})

NextSync ==
    \/ \E load \in LoadClosures : loadCurrentExampleResolved(load)
    \/ \E load \in LoadClosures : loadCurrentExampleFailed(load)

SpecSync == InitSync /\ [][NextSync]_vars /\ WF_vars(NextSync)

(***************************************************************************)
(* Properties of the progress state machine.                               *)
(***************************************************************************)
targetSentence == getTargetSentence(card, direction)

subPartKinds == {"verbRoot", "negativeAffix", "tenseAffix", "personalAffix"}

\* text and target agree up to letter case and trailing periods
sameUpToCaseAndDots(text, target) ==
    toLowerCase(stripDots(text)) = toLowerCase(stripDots(target))

\* text and target agree up to letter case, surrounding whitespace and the
\* periods that end the text once the whitespace is removed
sameUpToCaseSpaceAndDots(text, target) ==
    toLowerCase(stripDots(trim(text))) = toLowerCase(stripDots(target))

C4_FullSentenceExactly ==
    lastEvent.kind = "input" =>
        (progress.fullSentence
            <=> sameUpToCaseAndDots(lastEvent.text, targetSentence))

\* C4 as amended: a text-input event leaves fullSentence true exactly when
\* the typed text equals the target up to letter case, surrounding
\* whitespace and trailing periods; the target followed by "!!" gives false.
C4_FullSentenceUpToSpace ==
    lastEvent.kind = "input" =>
        /\ progress.fullSentence
              <=> sameUpToCaseSpaceAndDots(lastEvent.text, targetSentence)
        /\ lastEvent.text = stripDots(targetSentence) \o <<"!", "!">>
              => ~progress.fullSentence

\* the answer was typed in lower case with a space in front of it
C4_Witness ==
    /\ lastEvent.kind = "input"
    /\ lastEvent.text = <<" ">> \o toLowerCase(stripDots(targetSentence))
    /\ progress.fullSentence

\* C5: once every displayed checkbox has been toggled on, starting from the
\* empty field with all flags false, and every one has then been toggled
\* off, the field is empty and all five flags are false.
C5_RoundTrip ==
    (phase = "off" /\ noneDisplayedChecked)
        => (userInput = << >> /\ progress = noProgress)

\* a round trip on the negative card, which shows all five checkboxes
C5_Witness ==
    /\ phase = "off"
    /\ noneDisplayedChecked
    /\ showsNegativeCheckbox(card)

\* the segments whose flag is set in p, in the order root, negative affix,
\* tense affix, personal affix
flaggedSegments(ex, p) ==
    LET part(flag, segment) == IF flag THEN segment ELSE << >>
    IN  part(p.verbRoot, ex.turkish_verb.root)
        \o part(p.negativeAffix, ex.turkish_verb.negative_affix)
        \o part(p.tenseAffix, ex.turkish_verb.tense_affix)
        \o part(p.personalAffix, ex.turkish_verb.personal_affix)

\* C6 as stated: after a toggle of a sub-part checkbox the field is the
\* concatenation of the segments whose flag is true.
C6_ToggleRewritesField ==
    lastEvent.kind \in subPartKinds
        => userInput = flaggedSegments(card, progress)

\* C6 as amended: a toggle of a sub-part checkbox in a Turkish-target
\* direction makes the field the concatenation of the segments whose flag is
\* true when fullSentence is false and the target sentence when fullSentence
\* is true; in a Turkish-source direction it leaves the field as it was.
C6_ToggleRewritesFieldInTurkish ==
    [][lastEvent'.kind \in subPartKinds =>
          userInput' =
             IF endsWithTurkish(direction')
             THEN IF progress'.fullSentence
                  THEN targetSentence'
                  ELSE flaggedSegments(card', progress')
             ELSE userInput]_vars

\* on the imperative card the tense flag is set but has no segment to add
C6_Witness ==
    /\ example = "E3"
    /\ endsWithTurkish(direction)
    /\ lastEvent.kind = "tenseAffix"
    /\ progress.tenseAffix
    /\ progress.verbRoot
    /\ ~progress.fullSentence
    /\ userInput = Str_gel

\* C7 as stated: after Reveal Answer is toggled on the field is the target
\* sentence and the four sub-part flags are true.
C7_RevealSetsAll ==
    lastEvent.kind = "revealOn" =>
        /\ userInput = targetSentence
        /\ progress.verbRoot
        /\ progress.negativeAffix
        /\ progress.tenseAffix
        /\ progress.personalAffix

\* C7 as amended: toggling Reveal Answer on makes the field the target
\* sentence and verbRoot, tenseAffix, personalAffix and fullSentence true;
\* negativeAffix becomes true on a card of negative polarity and keeps its
\* value on a card of positive polarity.
C7_RevealSetsAllButNegative ==
    [][lastEvent'.kind = "revealOn" =>
          /\ userInput' = targetSentence'
          /\ progress' =
                [verbRoot |-> TRUE,
                 negativeAffix |->
                    (card.turkish_verb.polarity = "negative")
                    \/ progress.negativeAffix,
                 tenseAffix |-> TRUE,
                 personalAffix |-> TRUE,
                 fullSentence |-> TRUE]]_vars

\* the answer of a positive card is revealed, negativeAffix is still false
C7_Witness ==
    /\ lastEvent.kind = "revealOn"
    /\ card.turkish_verb.polarity = "positive"
    /\ userInput = targetSentence
    /\ ~progress.negativeAffix

\* C8: after Reveal Answer is toggled off all five flags are false and the
\* field is empty.
C8_UnrevealClears ==
    lastEvent.kind = "revealOff" =>
        /\ \A flag \in DOMAIN progress : ~progress[flag]
        /\ Len(userInput) = 0

\* Reveal Answer has just been toggled off
C8_Witness ==
    /\ lastEvent.kind = "revealOff"
    /\ ~progress.fullSentence

\* C9: a report with wasManualInput = true comes only from a text-input
\* event that turns fullSentence from false to true, a checkbox toggle
\* reports nothing, and the score changes only on such a report.
C9_OnlyTypingScores ==
    [][/\ (emitted'.called /\ emitted'.manual)
            => /\ lastEvent'.kind = "input"
               /\ ~progress.fullSentence
               /\ progress'.fullSentence
       /\ lastEvent'.kind \in subPartKinds \cup {"revealOn", "revealOff"}
            => ~emitted'.called
       /\ userProgress' # userProgress
            => (emitted'.called /\ emitted'.manual)]_vars

\* a sentence typed in full has been scored
C9_Witness ==
    /\ lastEvent.kind = "input"
    /\ emitted = [called |-> TRUE, manual |-> TRUE]
    /\ userProgress.totalAttempts = 1
    /\ userProgress.correctAnswers = 1

\* C10: after every event the parent's copy of ProgressState equals the
\* card's.
C10_ParentInSync == appProgress = progress

C12_DirectionChangeKeepsProgress ==
    [][lastEvent'.kind = "direction" =>
          /\ progress' = progress
          /\ userInput' =
                IF progress.fullSentence THEN targetSentence' ELSE << >>]_vars

\* the revealed answer follows the direction to a Turkish-source one
C12_Witness ==
    /\ lastEvent.kind = "direction"
    /\ ~endsWithTurkish(direction)
    /\ progress.fullSentence
    /\ progress.verbRoot
    /\ userInput = targetSentence

(***************************************************************************)
(* Properties of renderColoredText.                                        *)
(***************************************************************************)
\* C2: the plain-text content of what renderColoredText returns, its pieces
\* concatenated in order, is the input string exactly, whatever the
\* decomposition of the verb: nothing added, dropped, duplicated or reordered.
C2_ContentPreserved ==
    lastEvent.kind = "frame" => textContent(rendered) = lastEvent.text


(***************************************************************************)
(* Properties of the marking of incorrect words.  A word is a piece of the *)
(* rendered field outside the coloured verb.                               *)
(***************************************************************************)
isWordPiece(i) == rendered[i].style \in {"plain", "incorrect"}

pieceText(i) == decodeHtml(rendered[i].text)

pieceStart(i) == Len(textContent(SubSeq(rendered, 1, i - 1)))

pieceEnd(i) == pieceStart(i) + Len(pieceText(i))

\* the word has characters other than whitespace and trailing periods
isProperWord(i) ==
    /\ isWordPiece(i)
    /\ ~isSpaceRun(pieceText(i))
    /\ stripDots(pieceText(i)) # << >>

\* no proper word follows piece i
isLastWordPiece(i) ==
    \A j \in (i + 1)..Len(rendered) : ~isProperWord(j)

\* the caret is inside the word or at its end
caretInWord(i, caret) == pieceStart(i) < caret /\ caret <= pieceEnd(i)

\* the caret is inside the word or at one of its ends
caretTouchesWord(i, caret) == pieceStart(i) <= caret /\ caret <= pieceEnd(i)

wordsOfTarget == targetWordsOf(stripDots(targetSentence))

isPrefixOfTargetWord(word) ==
    \E k \in 1..Len(wordsOfTarget) :
        startsWith(toLowerCase(wordsOfTarget[k]),
                   toLowerCase(stripDots(word)))

isTargetWord(word) ==
    \E k \in 1..Len(wordsOfTarget) :
        toLowerCase(wordsOfTarget[k]) = toLowerCase(stripDots(word))

\* a repaint of the field in a Turkish-target direction, answer not revealed
markedRepaint ==
    /\ lastEvent.kind = "frame"
    /\ endsWithTurkish(direction)
    /\ ~progress.fullSentence

\* C13: on every rendering path a word that holds the caret, or that ends
\* the text, is flagged incorrect only if, without its trailing periods and
\* whatever the letter case, it is a prefix of no word of the target sentence.
C13_CaretWordLenient ==
    markedRepaint =>
        \A i \in 1..Len(rendered) :
            (/\ rendered[i].style = "incorrect"
             /\ caretInWord(i, lastEvent.cursor) \/ i = Len(rendered))
                => ~isPrefixOfTargetWord(pieceText(i))

\* C14: a word that neither holds the caret nor is the last word is flagged
\* incorrect exactly when, without its trailing periods, it is non-empty and
\* equals no word of the target sentence whatever the letter case; runs of
\* whitespace and words made of periods are never flagged.
C14_InteriorWordExact ==
    markedRepaint =>
        \A i \in 1..Len(rendered) :
            /\ (/\ isProperWord(i)
                /\ ~caretTouchesWord(i, lastEvent.cursor)
                /\ ~isLastWordPiece(i))
                  => (rendered[i].style = "incorrect"
                        <=> ~isTargetWord(pieceText(i)))
            /\ (isWordPiece(i) /\ ~isProperWord(i))
                  => rendered[i].style = "plain"

\* C15: a repaint made while fullSentence is true flags no word.
C15_RevealedNeverFlagged ==
    (lastEvent.kind = "frame" /\ progress.fullSentence) =>
        \A i \in 1..Len(rendered) : rendered[i].style # "incorrect"

\* the answer "Gelin gel." is shown in full: the verb is found at the start
\* of "Gelin", whose remainder "in" is no word of the sentence
C15_Witness ==
    /\ lastEvent.kind = "frame"
    /\ progress.fullSentence
    /\ example = "E8"
    /\ endsWithTurkish(direction)
    /\ textContent(rendered) = targetSentence
    /\ \E i \in 1..Len(rendered) :
          /\ rendered[i].style = "plain"
          /\ ~isTargetWord(pieceText(i))
          /\ isProperWord(i)


(***************************************************************************)
(* Properties of the caret across a repaint.                               *)
(***************************************************************************)
\* C16: a repaint that writes to the field the text the caret was captured
\* in, under any structure of spans, leaves the caret at the plain-text
\* offset it had before the write, for every offset from 0 to the length of
\* the text.
C16_CaretPreserved ==
    [][(/\ lastEvent'.kind = "frame"
        /\ textContent(rendered') = userInput
        /\ cursorPos \in 0..Len(userInput))
          => cursorPos' = cursorPos]_vars

\* a verb is repainted as three spans or more with the caret strictly inside
\* the text
C16_Witness ==
    /\ lastEvent.kind = "frame"
    /\ textContent(rendered) = userInput
    /\ Len(textNodes(rendered)) >= 3
    /\ \E i \in 1..Len(rendered) : rendered[i].style = "tense"
    /\ lastEvent.cursor = cursorPos
    /\ cursorPos > 0
    /\ cursorPos < Len(userInput)


(***************************************************************************)
(* Properties of the animation frames.                                     *)
(***************************************************************************)
\* C17: whatever the number of text changes before a frame fires, a frame
\* that fires writes the render of the latest input: no render computed from
\* an older input is executed.
C17_OnlyLatestWritten ==
    lastEvent.kind = "frame" => lastEvent.text = userInput

(***************************************************************************)
(* Properties of the tense-level lookup.                                   *)
(***************************************************************************)
\* C18: when the fetch of the tense-level mapping fails the level label
\* becomes null and neither the text of the field nor the progress changes;
\* an input event updates the text and the progress as checkProgressRealTime
\* says, whether a fetch is pending, has failed or has been answered.
C18_LookupFailureHarmless ==
    [][/\ lastEvent'.kind = "levelFailed" =>
            /\ tenseLevel' = "null"
            /\ userInput' = userInput
            /\ progress' = progress
       /\ lastEvent'.kind = "input" =>
            LET r == checkProgressRealTime(lastEvent'.text, card, direction,
                                           progress)
            IN  /\ progress' = IF r.hasChanges THEN r.newProgress
                                ELSE progress
                /\ tenseLevel' = tenseLevel]_vars

\* the root was typed, the last pending fetch then failed, and the field and
\* the progress are as typed
C18_Witness ==
    /\ lastEvent.kind = "levelFailed"
    /\ tenseLevel = "null"
    /\ fetches = {}
    /\ progress.verbRoot
    /\ ~progress.fullSentence
    /\ userInput = card.turkish_verb.root

(***************************************************************************)
(* Properties of the colouring of the verb on the primary path.            *)
(***************************************************************************)
verbOf == card.turkish_verb

\* where verb_full begins in the text of the last repaint, -1 if nowhere
verbIndexOf == indexOf(toLowerCase(lastEvent.text), toLowerCase(verbOf.verb_full))

\* a repaint of the field on the primary path
primaryRepaint ==
    /\ lastEvent.kind = "frame"
    /\ endsWithTurkish(direction)
    /\ lastEvent.text # << >>
    /\ verbIndexOf # -1

\* the label of the k-th character of the matched verb, "none" if the field
\* does not hold that many characters
labelAt(k) ==
    LET at == verbIndexOf + k
        holders == {i \in 1..Len(rendered) :
                        pieceStart(i) <= at /\ at < pieceEnd(i)}
    IN  IF holders = {} THEN "none"
        ELSE rendered[CHOOSE i \in holders : TRUE].style

matchedVerb ==
    substring(lastEvent.text, verbIndexOf, verbIndexOf + Len(verbOf.verb_full))

\* where an affix is found at or after an offset of the matched verb,
\* -1 if it is absent from the card or from the rest of the verb
affixStart(affix, offset) ==
    LET index == indexOf(toLowerCase(substringFrom(matchedVerb, offset)),
                         toLowerCase(affix))
    IN  IF affix = << >> \/ index = -1 THEN -1 ELSE offset + index

rootEnd == rootLength(verbOf)

negativeStart == affixStart(verbOf.negative_affix, rootEnd)

negativeEnd ==
    IF negativeStart = -1 THEN rootEnd
    ELSE negativeStart + Len(verbOf.negative_affix)

tenseStart == affixStart(verbOf.tense_affix, negativeEnd)

tenseEnd ==
    IF tenseStart = -1 THEN negativeEnd
    ELSE tenseStart + Len(verbOf.tense_affix)

\* the characters k of the matched verb with from <= k < to carry the label
labelled(from, to, label) == \A k \in from..(to - 1) : labelAt(k) = label

\* C19 as stated: the characters between the previous segment and a found
\* affix carry the label of the previous segment, and every character after
\* the tense affix is labelled personal.
C19_GapTakesPreviousLabel ==
    primaryRepaint =>
        /\ negativeStart # -1 => labelled(rootEnd, negativeStart, "root")
        /\ tenseStart # -1 =>
              labelled(negativeEnd, tenseStart,
                       IF negativeStart # -1 THEN "negative" ELSE "root")
        /\ labelled(tenseEnd, Len(verbOf.verb_full), "personal")

\* C19: on the primary path the characters between the previous segment and
\* a found affix carry the label of that affix, the one that follows them;
\* the characters after the last found affix are all labelled personal when
\* the card has a personal affix, and none is when it has none.
C19_GapTakesAffixLabel ==
    primaryRepaint =>
        /\ negativeStart # -1 => labelled(rootEnd, negativeEnd, "negative")
        /\ tenseStart # -1 => labelled(negativeEnd, tenseEnd, "tense")
        /\ IF verbOf.personal_affix # << >>
           THEN labelled(tenseEnd, Len(verbOf.verb_full), "personal")
           ELSE \A k \in 0..(Len(verbOf.verb_full) - 1) :
                    labelAt(k) # "personal"

\* "gelir" on the card gel + r: the buffer vowel before the tense affix is
\* painted with the affix
C19_Witness ==
    /\ primaryRepaint
    /\ tenseStart # -1
    /\ tenseStart > negativeEnd
    /\ labelAt(negativeEnd) = "tense"
    /\ labelAt(rootEnd - 1) = "root"

\* the vowel at the end of the root is dropped: the root ends in a vowel and
\* the affix right after it is a tense affix that begins with a vowel
droppedVowelCase ==
    /\ LowerChar(verbOf.root[Len(verbOf.root)]) \in turkishVowels
    /\ verbOf.negative_affix = << >>
    /\ verbOf.tense_affix # << >>
    /\ LowerChar(verbOf.tense_affix[1]) \in turkishVowels

\* C20: on the primary path the root label covers the first root.length
\* characters of the matched verb and no more, one character less in the
\* dropped-vowel case and only then.
C20_RootSpan ==
    (primaryRepaint /\ verbOf.root # << >>) =>
        LET expected == IF droppedVowelCase THEN Len(verbOf.root) - 1
                        ELSE Len(verbOf.root)
        IN  /\ labelled(0, expected, "root")
            /\ labelAt(expected) # "root"

(***************************************************************************)
(* Properties of the colouring of the verb on the fallback path.           *)
(***************************************************************************)
\* the label of the character at a plain-text offset of the field, "none"
\* if the field does not hold that many characters
styleAtOffset(at) ==
    LET holders == {i \in 1..Len(rendered) :
                        pieceStart(i) <= at /\ at < pieceEnd(i)}
    IN  IF holders = {} THEN "none"
        ELSE rendered[CHOOSE i \in holders : TRUE].style

unlabelled == {"plain", "incorrect"}

\* the parts of the verb the card has, in the order of the surface form
presentParts ==
    SelectSeq(<<[text |-> verbOf.root, style |-> "root"],
                [text |-> verbOf.negative_affix, style |-> "negative"],
                [text |-> verbOf.tense_affix, style |-> "tense"],
                [text |-> verbOf.personal_affix, style |-> "personal"]>>,
              LAMBDA part : part.text # << >>)

RECURSIVE joinedParts(_)
joinedParts(n) ==
    IF n = 0 THEN << >>
    ELSE joinedParts(n - 1) \o toLowerCase(presentParts[n].text)

rootIndexOf == indexOf(toLowerCase(lastEvent.text), toLowerCase(verbOf.root))

\* how many parts, from the root on, stand one right after the other at the
\* first occurrence of the root
matchedCount ==
    LET rest == toLowerCase(substringFrom(lastEvent.text, rootIndexOf))
        fitting == {n \in 1..Len(presentParts) :
                        startsWith(rest, joinedParts(n))}
    IN  CHOOSE n \in fitting : \A m \in fitting : m <= n

\* a repaint of the field when verb_full is not in the text
fallbackRepaint ==
    /\ lastEvent.kind = "frame"
    /\ endsWithTurkish(direction)
    /\ lastEvent.text # << >>
    /\ verbOf.root # << >>
    /\ verbIndexOf = -1

\* C21: when verb_full is not in the input but the root is, the first
\* occurrence of the root and the parts that follow it without a gap, in
\* the order negative, tense, personal and up to the first that does not
\* fit, carry their labels and every other character carries none; when the
\* root is not in the input either, no character carries a label; either
\* way the field holds the input unmodified.
C21_SequentialFallback ==
    fallbackRepaint =>
        /\ textContent(rendered) = lastEvent.text
        /\ IF rootIndexOf = -1
           THEN \A k \in 0..(Len(lastEvent.text) - 1) :
                    styleAtOffset(k) \in unlabelled
           ELSE \A k \in 0..(Len(lastEvent.text) - 1) :
                    LET inPart(n) ==
                            /\ rootIndexOf + Len(joinedParts(n - 1)) <= k
                            /\ k < rootIndexOf + Len(joinedParts(n))
                    IN  IF \E n \in 1..matchedCount : inPart(n)
                        THEN \E n \in 1..matchedCount :
                                /\ inPart(n)
                                /\ styleAtOffset(k) = presentParts[n].style
                        ELSE styleAtOffset(k) \in unlabelled

\* on a card with root, tense affix and personal affix the root and the
\* personal affix are typed without the tense affix between them: the root
\* is labelled and the character after it is not
C21_Witness ==
    /\ fallbackRepaint
    /\ rootIndexOf # -1
    /\ matchedCount = 1
    /\ Len(presentParts) >= 3
    /\ lastEvent.text = verbOf.root \o verbOf.personal_affix
    /\ styleAtOffset(rootIndexOf) = "root"
    /\ styleAtOffset(rootIndexOf + Len(verbOf.root)) \in unlabelled

(***************************************************************************)
(* Properties of the caret when the content shrinks.                       *)
(***************************************************************************)
\* C22: a repaint that writes a content shorter than the caret offset
\* captured before the write leaves the caret at the end of the content.
C22_CaretClampedToEnd ==
    [][(/\ lastEvent'.kind = "frame"
        /\ rendered' # rendered
        /\ cursorPos > Len(textContent(rendered')))
          => cursorPos' = Len(textContent(rendered'))]_vars

(***************************************************************************)
(* Properties of the short-circuit of updateColoredText.                   *)
(***************************************************************************)
\* C23: of two updates that follow each other on the same input, the same
\* decomposition and the same caret, the second computes the output of the
\* first and does not write to the field.
C23_SecondUpdateSkipped ==
    [][(/\ lastEvent.kind = "frame"
        /\ lastEvent'.kind = "frame"
        /\ lastEvent'.text = lastEvent.text
        /\ lastEvent'.cursor = lastEvent.cursor
        /\ lastEvent.cursor = cursorPos)
          => /\ rendered' = rendered
             /\ ~lastEvent'.written]_vars

(***************************************************************************)
(* Properties of the flags across all events of the card.                  *)
(***************************************************************************)
\* the segment of the card's decomposition a sub-part flag stands for
segmentOf(field) ==
    CASE field = "verbRoot" -> card.turkish_verb.root
      [] field = "negativeAffix" -> card.turkish_verb.negative_affix
      [] field = "tenseAffix" -> card.turkish_verb.tense_affix
      [] OTHER -> card.turkish_verb.personal_affix

\* C26: in a Turkish-target direction every sub-part flag that is true
\* stands for a segment that the card's decomposition has and that the text
\* of the field contains, whatever the letter case.
C26_FlagsReferToPresentSegments ==
    endsWithTurkish(direction) =>
        \A field \in subPartKinds :
            progress[field] =>
                /\ segmentOf(field) # << >>
                /\ includes(toLowerCase(userInput),
                            toLowerCase(segmentOf(field)))


(***************************************************************************)
(* SpecStreak: the score counters of App.  The user types the answer,      *)
(* clears the field and types it again, on the same card or on another     *)
(* one, so that one example is completed several times.                    *)
(***************************************************************************)
StreakExamples == {"E1", "E2", "E3"}

\* the input event in the application, with at most MaxCompletions
\* completions scored
StreakInput(t) ==
    LET r == checkProgressRealTime(t, card, direction, progress)
    IN  /\ (r.hasChanges /\ scores(r.newProgress, r.wasManual))
              => userProgress.totalAttempts < MaxCompletions
        /\ onInput(t)
        /\ UNCHANGED <<cursorPos, frames, levelVars, navVars>>
        /\ IF r.hasChanges
           THEN handleProgress(r.newProgress, r.wasManual)
           ELSE UNCHANGED <<appProgress, userProgress>>

InitStreak == InitOn(StreakExamples)

NextStreak ==
    \/ \E t \in ScoreTexts(card, direction) : StreakInput(t)
    \/ handleDirectionToggle
    \/ \E ex \in StreakExamples : ChangeExample(ex)

SpecStreak == InitStreak /\ [][NextStreak]_vars

\* C30: after any sequence of progress reports and card changes,
\* correctAnswers is the number of distinct keys in completedExamples (an
\* example completed several times counts once) and bestStreak is at least
\* currentStreak.
C30_ScoreCounters ==
    /\ userProgress.correctAnswers = Cardinality(userProgress.completedExamples)
    /\ userProgress.bestStreak >= userProgress.currentStreak

\* one example has been completed twice
C30_Witness ==
    /\ userProgress.totalAttempts = 2
    /\ Cardinality(userProgress.completedExamples) = 1
    /\ userProgress.currentStreak = 2


(***************************************************************************)
(* Properties of the navigation.                                           *)
(***************************************************************************)
itemsOf(array) == {array[i] : i \in DOMAIN array}

\* every item that a list of tenses or pronouns can be asked about
NavItems == NavTenses \cup NavPronouns \cup {""}

\* n applications of the function step to item
RECURSIVE applied(_, _, _)
applied(step, n, item) ==
    IF n = 0 THEN item ELSE step[applied(step, n - 1, item)]

\* forward takes each item of the list to the one after it, the last item
\* and every item not in the list to the first one, and backward takes each
\* item to the one before it, the first item and every item not in the list
\* to the last one; as many steps forward as the list has items lead back
\* to the item they start from
circular(array, forward, backward) ==
    /\ \A i \in DOMAIN array :
          /\ forward[array[i]] = array[IF i = Len(array) THEN 1 ELSE i + 1]
          /\ backward[array[i]] = array[IF i = 1 THEN Len(array) ELSE i - 1]
          /\ applied(forward, Len(array), array[i]) = array[i]
    /\ \A absent \in NavItems \ itemsOf(array) :
          /\ forward[absent] = IF array = << >> THEN "null" ELSE array[1]
          /\ backward[absent] =
                IF array = << >> THEN "null" ELSE array[Len(array)]

tensesWrap(level) ==
    circular(getAvailableTenses(currentVerb, level),
             [tense \in NavItems |-> getNextTense(currentVerb, tense, level)],
             [tense \in NavItems |-> getPrevTense(currentVerb, tense, level)])

pronounsWrap(tense, polarity) ==
    circular(getAvailablePronouns(currentVerb, tense, polarity),
             [pronoun \in NavItems |->
                 getNextPronoun(currentVerb, tense, pronoun, polarity)],
             [pronoun \in NavItems |->
                 getPrevPronoun(currentVerb, tense, pronoun, polarity)])

highestRank ==
    CHOOSE rank \in {verbsIndex[i].rank : i \in DOMAIN verbsIndex} :
        \A i \in DOMAIN verbsIndex : verbsIndex[i].rank <= rank

\* the button for the next verb goes to the verb of the rank after
\* currentRank, the one for the previous verb to the verb of the rank
\* before it, rank 1 coming after the highest rank
verbsWrap ==
    /\ lastEvent'.kind = "nextVerb"
          => rankOf(currentVerb') =
                IF currentRank = highestRank THEN 1 ELSE currentRank + 1
    /\ lastEvent'.kind = "prevVerb"
          => rankOf(currentVerb') =
                IF currentRank = 1 THEN highestRank ELSE currentRank - 1
    /\ applied([rank \in DOMAIN verbsIndex |-> nextRank(rank)],
               Len(verbsIndex), currentRank) = currentRank

\* C24: navigation wraps around circularly.  For the verb on display and
\* every level, tense and polarity, getNextTense, getPrevTense,
\* getNextPronoun and getPrevPronoun step through the available list as
\* circular says, and the verb buttons step through the ranks.
C24_NavigationWraps ==
    /\ [](/\ \A level \in LevelFilters \cup {"A1-A2"} : tensesWrap(level)
          /\ \A tense \in NavTenses, polarity \in Polarities :
                pronounsWrap(tense, polarity))
    /\ [][verbsWrap]_vars

\* the next-verb button has gone from the verb of the highest rank to the
\* verb of rank 1, whose lists have several items
C24_Witness ==
    /\ lastEvent.kind = "nextVerb"
    /\ currentRank = highestRank
    /\ rankOf(currentVerb) = 1
    /\ Len(getAvailableTenses(currentVerb, "All")) > 1
    /\ Len(getAvailablePronouns(currentVerb, currentTense, "positive")) > 1

\* C29: with a level other than 'All' selected, the buttons for the next
\* and the previous tense move the current tense only to a tense whose
\* level passes the filter.
C29_TenseButtonsKeepLevel ==
    [][(/\ lastEvent'.kind \in {"nextTense", "prevTense"}
        /\ languageLevel # "All"
        /\ currentTense' # currentTense)
          => passesLevel(currentTense', languageLevel)]_vars

preference(entry, pronoun, tense, polarity) ==
    CASE entry.tense = tense /\ entry.pronoun = pronoun
            /\ entry.polarity = polarity -> 1
      [] entry.tense = tense /\ entry.polarity = polarity -> 2
      [] entry.tense = tense /\ entry.pronoun = pronoun -> 3
      [] entry.pronoun = pronoun -> 4
      [] OTHER -> 5

\* the first entry of the best preference among the entries of the verb
preferred(verbEnglish, pronoun, tense, polarity) ==
    LET entries == verbIndex[verbEnglish]
        rank(i) == preference(entries[i], pronoun, tense, polarity)
    IN  entries[CHOOSE i \in DOMAIN entries :
                    \A j \in DOMAIN entries :
                        rank(i) < rank(j) \/ (rank(i) = rank(j) /\ i <= j)]

\* C25: a call of loadTrainingExample returns the example of the preferred
\* entry, and null only when the verb is unknown, the verb has no entries
\* or a fetch fails; it fetches only when the key of the resolved tense,
\* pronoun and polarity is not in the cache, and a fetch that succeeds
\* puts that key there.
C25_ResolvesByPriority ==
    [][lastEvent'.kind = "loadTrainingExample" =>
        LET verbEnglish == lastEvent'.request[1]
            pronoun == lastEvent'.request[2]
            tense == lastEvent'.request[3]
            polarity == lastEvent'.request[4]
            unknown == \A i \in DOMAIN verbsIndex :
                          verbsIndex[i].verb_english # verbEnglish
            empty == ~unknown /\ verbIndex[verbEnglish] = << >>
            entry == preferred(verbEnglish, pronoun, tense, polarity)
            key == <<verbEnglish, entry.pronoun, entry.tense, entry.polarity>>
        IN  IF unknown \/ empty
            THEN /\ lastEvent'.returned = noExample
                 /\ ~lastEvent'.fetched
                 /\ trainingExampleCache' = trainingExampleCache
            ELSE /\ lastEvent'.fetched = (key \notin trainingExampleCache)
                 /\ lastEvent'.returned =
                       IF lastEvent'.fetched /\ ~lastEvent'.fetchOk
                       THEN noExample
                       ELSE exampleFile(verbEnglish, entry)
                 /\ trainingExampleCache' =
                       IF lastEvent'.returned = noExample
                       THEN trainingExampleCache
                       ELSE trainingExampleCache \cup {key}]_vars

\* a request that resolves by the pronoun alone to an entry fetched before
\* for another request has been answered from the cache
C25_Witness ==
    /\ lastEvent.kind = "loadTrainingExample"
    /\ lastEvent.request = <<"be", "sen", "emir_kipi", "negative">>
    /\ ~lastEvent.fetched
    /\ lastEvent.returned =
          exampleFile("be", indexEntry("simdiki_zaman", "sen", "positive"))

\* C28: with an index that agrees with the example files, the cycle of
\* loading an example, setting the navigation state to it and loading
\* again comes to an end: from some load on no call of loadCurrentExample
\* is pending any more, and so the navigation state stays as it is.
C28_SyncTerminates == <>[](loads = EmptyBag)

\* a load has set the navigation state to the example it found, and the
\* load that followed, answered from the cache, has left it alone
C28_Witness ==
    /\ lastEvent.kind = "loaded"
    /\ lastEvent.cached
    /\ ~lastEvent.synced
    /\ loads = EmptyBag
    /\ currentExample.verb_tense = currentTense
=============================================================================
